---------------------------- MODULE Spec2Model ----------------------------
(***************************************************************************)
(* Rate-governed access layer and command pipeline of discord-selfbot-v2.  *)
(*                                                                         *)
(*   Spec         CommandRegistry: register / execute (commands/registry)  *)
(*   LimiterSpec  RateLimiter / TokenBucket with concurrent waiters        *)
(*   RetrySpec    withRetry over an operation that fails a number of times *)
(*   FetchSpec    DiscordService.fetchMessages over a channel's messages   *)
(*   WrapperSpec  standardCommandWrapper(handler) beside registry.execute  *)
(*   ClassifierSpec  isRetryableError on the errors as thrown              *)
(*   TerminationSpec  one withRetry or fetchMessages call, every awaited   *)
(*                call and sleep completing (weak fairness)                *)
(*   BucketSpec   one TokenBucket called in any order, forward clock       *)
(*   ExecSpec     RateLimiter.execute, timers and continuations fair       *)
(*   BulkSpec     the loops of the bulk handlers                           *)
(*   ServiceSpec  DiscordService.fetchChannel / fetchUser / fetchUserSelf  *)
(*   OverwriteSpec  CommandRegistry with its register() calls kept         *)
(*   FileSpec     ensureDir / safeWriteFile along one path (utils/file)    *)
(*   DispatchSpec  an interaction dispatched around the self-bot's ready   *)
(*   NukeSpec     handleNukeChannels / handleNukeServer and their guards   *)
(*   OrchestratorSpec  shutdown, client errors and re-login, every awaited *)
(*                promise settling (weak fairness)                         *)
(*                                                                         *)
(* Thrown values are Error objects, as the sources declare them            *)
(* (@param {Error} error): every error has a message.                      *)
(***************************************************************************)
EXTENDS Integers, Sequences, FiniteSets, TLC

VARIABLES
    commands,   \* CommandRegistry.commands: name -> {handler, options} or NoCommand
    inv,        \* the invocations of execute(name, interaction), one record each
    registered, \* number of register() calls made so far
    now,        \* Date.now(), in ms since the RateLimiter was constructed
    limits,     \* RateLimiter.options: globalLimit, messageLimit, deleteLimit
    globalBucket, \* RateLimiter.globalBucket
    routeBuckets, \* RateLimiter.routeBuckets: route -> TokenBucket or NoBucket
    waiter,     \* the activations of RateLimiter.wait(route, type)
    passes,     \* per bucket, the number of wait() calls that went through it
    script,     \* the errors the operation given to withRetry throws, call by call
    rt,         \* the activation of withRetry: options, loop state, history
    channelSize, \* the number of messages in the channel, ids 1 (oldest) .. channelSize
    fs,         \* the activation of fetchMessages: arguments, locals, history
    scenario,   \* the actor, the handler's and the response channel's behaviour
    wr,         \* the activation of standardCommandWrapper(handler)(interaction)
    thrown, \* the error handed to isRetryableError
    verdict, \* what isRetryableError returned for it
    tokenBucket, \* a TokenBucket used on its own
    clock, \* Date.now() as that bucket sees it, in ms
    lastCall, \* the last call made on that bucket, with what it returned
    probe, \* how far the drain, ask, sleep, retry sequence has come
    executing, \* the activations of RateLimiter.execute(fn, route, type)
    bulk, \* the activation of a bulk handler: its loops, counters and reports
    svc, \* the activation of DiscordService.fetchChannel / fetchUser / fetchUserSelf
    lastRegistered, \* per name, the latest register() call: its arguments, how many came before
    disk, \* the file system along one path: per level, what is there
    io, \* the activation of safeWriteFile or ensureDir
    discordServiceInstance, \* services/discord: the module-level instance, "null" until initDiscordService
    dispatch, \* per invocation: the instance at dispatch and at the handler call, the API calls made
    nuke, \* the activation of handleNukeChannels or handleNukeServer
    orch \* the Orchestrator: its flags, what it awaits, what it has done

regVars == <<commands, inv, registered>>
limVars == <<now, limits, globalBucket, routeBuckets, waiter, passes>>
retryVars == <<script, rt>>
vars == <<commands, inv, registered,
          now, limits, globalBucket, routeBuckets, waiter, passes,
          script, rt, channelSize, fs, scenario, wr,
          thrown, verdict,
          tokenBucket, clock, lastCall, probe,
          executing,
          bulk,
          svc,
          lastRegistered,
          disk, io,
          discordServiceInstance, dispatch,
          nuke,
          orch>>
fetchVars == <<channelSize, fs>>
wrapVars == <<scenario, wr>>
classVars == <<thrown, verdict>>
bucketVars == <<tokenBucket, clock, lastCall, probe>>
execVars == <<executing>>
bulkVars == <<bulk>>
svcVars == <<svc>>
histVars == <<lastRegistered>>
fileVars == <<disk, io>>
dispatchVars == <<discordServiceInstance, dispatch>>
nukeVars == <<nuke>>
orchVars == <<orch>>
nonRegVars == <<limVars, retryVars, fetchVars, wrapVars, classVars, bucketVars, execVars, bulkVars, svcVars, histVars, fileVars, dispatchVars, nukeVars, orchVars>>
nonRegDispatchVars == <<limVars, retryVars, fetchVars, wrapVars, classVars, bucketVars, execVars, bulkVars, svcVars, histVars, fileVars, nukeVars, orchVars>>
nonLimVars == <<regVars, retryVars, fetchVars, wrapVars, classVars, bucketVars, execVars, bulkVars, svcVars, histVars, fileVars, dispatchVars, nukeVars, orchVars>>
nonRetryVars == <<regVars, limVars, fetchVars, wrapVars, classVars, bucketVars, execVars, bulkVars, svcVars, histVars, fileVars, dispatchVars, nukeVars, orchVars>>
nonFetchVars == <<regVars, limVars, retryVars, wrapVars, classVars, bucketVars, execVars, bulkVars, svcVars, histVars, fileVars, dispatchVars, nukeVars, orchVars>>
nonWrapVars == <<regVars, limVars, retryVars, fetchVars, classVars, bucketVars, execVars, bulkVars, svcVars, histVars, fileVars, dispatchVars, nukeVars, orchVars>>
nonClassVars == <<regVars, limVars, retryVars, fetchVars, wrapVars, bucketVars, execVars, bulkVars, svcVars, histVars, fileVars, dispatchVars, nukeVars, orchVars>>
nonBucketVars == <<regVars, limVars, retryVars, fetchVars, wrapVars, classVars, execVars, bulkVars, svcVars, histVars, fileVars, dispatchVars, nukeVars, orchVars>>
nonExecVars == <<regVars, limVars, retryVars, fetchVars, wrapVars, classVars, bucketVars, bulkVars, svcVars, histVars, fileVars, dispatchVars, nukeVars, orchVars>>
nonLimExecVars == <<regVars, retryVars, fetchVars, wrapVars, classVars, bucketVars, bulkVars, svcVars, histVars, fileVars, dispatchVars, nukeVars, orchVars>>
nonBulkVars == <<regVars, limVars, retryVars, fetchVars, wrapVars, classVars, bucketVars, execVars, svcVars, histVars, fileVars, dispatchVars, nukeVars, orchVars>>
nonSvcVars == <<regVars, limVars, retryVars, fetchVars, wrapVars, classVars, bucketVars, execVars, bulkVars, histVars, fileVars, dispatchVars, nukeVars, orchVars>>
nonHistVars == <<regVars, limVars, retryVars, fetchVars, wrapVars, classVars, bucketVars, execVars, bulkVars, svcVars, fileVars, dispatchVars, nukeVars, orchVars>>
nonRegHistVars == <<limVars, retryVars, fetchVars, wrapVars, classVars, bucketVars, execVars, bulkVars, svcVars, fileVars, dispatchVars, nukeVars, orchVars>>
nonFileVars == <<regVars, limVars, retryVars, fetchVars, wrapVars, classVars, bucketVars, execVars, bulkVars, svcVars, histVars, dispatchVars, nukeVars, orchVars>>
nonDispatchVars == <<regVars, limVars, retryVars, fetchVars, wrapVars, classVars, bucketVars, execVars, bulkVars, svcVars, histVars, fileVars, nukeVars, orchVars>>
nonNukeVars == <<regVars, limVars, retryVars, fetchVars, wrapVars, classVars, bucketVars, execVars, bulkVars, svcVars, histVars, fileVars, dispatchVars, orchVars>>
nonOrchVars == <<regVars, limVars, retryVars, fetchVars, wrapVars, classVars, bucketVars, execVars, bulkVars, svcVars, histVars, fileVars, dispatchVars, nukeVars>>

(***************************************************************************)
(* Bounds                                                                  *)
(***************************************************************************)
NumInvocations == 1
MaxRegister == 2
NumWaiters == 3
TickMs == 250       \* the clock is observed every TickMs milliseconds
MaxTicks == 5       \* the clock stops after MaxTicks observations
MaxFailures == 3    \* the operation fails at most MaxFailures times, then succeeds
MaxAttemptsOption == 3  \* the largest options.maxAttempts tried
MaxMessages == 4    \* the largest channel
MaxItems == 3       \* the largest number of items a bulk loop goes through
Depth == 3          \* the number of components of the path written to
MaxTriggers == 2    \* the signals and uncaught exceptions the process receives
MaxSessionErrors == 3  \* the 'error' events the clients emit
MaxCapacity == 2    \* the largest capacity given to a TokenBucket used on its own
MaxCount == 2       \* the largest count asked of tryConsume and getWaitTime
MaxLimit == 5       \* the largest limit asked of fetchMessages
batchSize == 2      \* fetchMessages' page size (100 in the source), scaled down

(***************************************************************************)
(* CommandRegistry                                                         *)
(***************************************************************************)
CommandNames == {"purge"}
HandlerIds == {"h1", "h2"}
UserIds == {"owner", "guest"}
Invocations == 1..NumInvocations

ownerUserId == "owner"

NoCommand == [handler |-> "none", requiresAuth |-> FALSE, defer |-> FALSE]

\* mutant: any identified user passes the check
isAuthorizedAnyUser(userId) == userId # "none"

\* decorators.js isAuthorized
isAuthorized(userId) == userId = ownerUserId

\* register(): the defaults, overridden by the options given ("default" = key absent)
RegisterOptionValues == {"default", "true", "false"}
registerDefault(optionValue) == IF optionValue = "default" THEN TRUE ELSE optionValue = "true"

NewInvocation ==
    [pc |-> "idle", name |-> "none", user |-> "none",
     found |-> FALSE, handler |-> "none", requiresAuth |-> FALSE, defer |-> FALSE,
     deferred |-> FALSE, replied |-> FALSE, log |-> <<>>]

\* new CommandRegistry(): no command, no invocation under way
EmptyCommands == [n \in CommandNames |-> NoCommand]
NoInvocations == [i \in Invocations |-> NewInvocation]

\* mutant: a name that is registered keeps its first entry
registerKeepingFirst(name, h, ra, df) ==
    /\ registered < MaxRegister
    /\ registered' = registered + 1
    /\ commands' = IF commands[name] # NoCommand THEN commands
                   ELSE [commands EXCEPT ![name] =
                            [handler |-> h,
                             requiresAuth |-> registerDefault(ra),
                             defer |-> registerDefault(df)]]
    /\ UNCHANGED inv

\* register(name, handler, options): inserts or overwrites the entry
register(name, h, ra, df) ==
    /\ registered < MaxRegister
    /\ registered' = registered + 1
    /\ commands' = [commands EXCEPT ![name] =
                        [handler |-> h,
                         requiresAuth |-> registerDefault(ra),
                         defer |-> registerDefault(df)]]
    /\ UNCHANGED inv

Register(name, h, ra, df) ==
    /\ register(name, h, ra, df)
    /\ UNCHANGED nonRegVars

has(name) == name \in CommandNames /\ commands[name] # NoCommand
size == Cardinality({name \in CommandNames : commands[name] # NoCommand})

\* register(name, handler, options), the call being kept: its arguments, the
\* entry it replaced, and what has and size gave before it
NoRegistration ==
    [times |-> 0, handler |-> "none", requiresAuth |-> "default", defer |-> "default",
     replaced |-> NoCommand, hadBefore |-> FALSE, sizeBefore |-> 0]
NoRegistrations == [name \in CommandNames |-> NoRegistration]

RegisterRecorded(name, h, ra, df) ==
    /\ register(name, h, ra, df)
    /\ lastRegistered' = [lastRegistered EXCEPT ![name] =
           [times |-> @.times + 1, handler |-> h, requiresAuth |-> ra, defer |-> df,
            replaced |-> commands[name], hadBefore |-> has(name), sizeBefore |-> size]]
    /\ UNCHANGED nonRegHistVars

\* mutant: the lookup result is not tested
executeBranchNoLookupTest(name, userId) ==
    IF has(name) /\ commands[name].requiresAuth /\ ~isAuthorized(userId) THEN "unauthorized"
    ELSE IF has(name) /\ commands[name].defer THEN "defer"
    ELSE "handler"

\* The branch execute takes up to its first await.
executeBranch(name, userId) ==
    IF ~has(name) THEN "unknown"
    ELSE IF commands[name].requiresAuth /\ ~isAuthorized(userId) THEN "unauthorized"
    ELSE IF commands[name].defer THEN "defer"
    ELSE "handler"

\* execute(name, interaction), from the call to its first await
executeBegin(i, name, userId) ==
    /\ inv[i].pc = "idle"
    /\ LET branch == executeBranch(name, userId)
           call == [inv[i] EXCEPT !.name = name, !.user = userId]
           \* const { handler, options } = command
           base == IF has(name)
                   THEN [call EXCEPT !.found = TRUE,
                                     !.handler = commands[name].handler,
                                     !.requiresAuth = commands[name].requiresAuth,
                                     !.defer = commands[name].defer]
                   ELSE call
       IN inv' = [inv EXCEPT ![i] =
            CASE branch = "unknown" ->
                    [base EXCEPT !.pc = "reply_unknown",
                                 !.log = Append(@, "reply:unknown")]
              [] branch = "unauthorized" ->
                    [base EXCEPT !.pc = "reply_unauthorized",
                                 !.log = Append(@, "reply:unauthorized")]
              [] branch = "defer" ->
                    [base EXCEPT !.pc = "deferReply",
                                 !.log = Append(@, "deferReply")]
              [] OTHER ->
                    [base EXCEPT !.pc = "handler",
                                 !.log = Append(@, "handler")]]
    /\ UNCHANGED <<commands, registered>>

ExecuteBegin(i, name, userId) ==
    /\ executeBegin(i, name, userId)
    /\ UNCHANGED nonRegVars

\* the awaited reply of the unknown-command or authorization branch settles
ExecuteRejectionSettles(i, ok) ==
    /\ inv[i].pc \in {"reply_unknown", "reply_unauthorized"}
    /\ inv' = [inv EXCEPT ![i] =
                 IF ok THEN [@ EXCEPT !.pc = "returned", !.replied = TRUE]
                 ELSE [@ EXCEPT !.pc = "rejected"]]
    /\ UNCHANGED <<commands, registered>>
    /\ UNCHANGED nonRegVars

\* mutant: a failed deferReply is ignored and the handler runs unacknowledged
ExecuteDeferSettlesIgnoringFailure(i, ok) ==
    /\ inv[i].pc = "deferReply"
    /\ inv' = [inv EXCEPT ![i] =
                 IF ok THEN [@ EXCEPT !.pc = "handler", !.deferred = TRUE,
                                      !.log = Append(Append(@, "ack"), "handler")]
                 ELSE [@ EXCEPT !.pc = "handler", !.log = Append(@, "handler")]]
    /\ UNCHANGED <<commands, registered>>
    /\ UNCHANGED nonRegVars

\* the awaited deferReply settles; on success the handler is invoked
executeDeferSettles(i, ok) ==
    /\ inv[i].pc = "deferReply"
    /\ inv' = [inv EXCEPT ![i] =
                 IF ok THEN [@ EXCEPT !.pc = "handler", !.deferred = TRUE,
                                      !.log = Append(Append(@, "ack"), "handler")]
                 ELSE [@ EXCEPT !.pc = "rejected"]]
    /\ UNCHANGED <<commands, registered>>

ExecuteDeferSettles(i, ok) ==
    /\ executeDeferSettles(i, ok)
    /\ UNCHANGED nonRegVars

\* mutant: the failure is always reported by editing the reserved response
reportCallAlwaysEdit(deferred, replied) == "editReply"

\* which call reports the failure of a handler
reportCall(deferred, replied) == IF deferred \/ replied THEN "editReply" ELSE "reply:error"

\* mutant: a handler that throws is run a second time before the failure is
\* reported
ExecuteHandlerSettlesRetrying(i, handlerReplied, throws) ==
    /\ inv[i].pc = "handler"
    /\ LET replied == inv[i].replied \/ handlerReplied
           first == \A k \in 1..Len(inv[i].log) : inv[i].log[k] # "threw"
       IN inv' = [inv EXCEPT ![i] =
            IF throws /\ first
            THEN [@ EXCEPT !.replied = replied,
                           !.log = Append(Append(@, "threw"), "handler")]
            ELSE IF throws
            THEN [@ EXCEPT !.pc = "report", !.replied = replied,
                           !.log = Append(Append(@, "threw"),
                                          reportCall(inv[i].deferred, replied))]
            ELSE [@ EXCEPT !.pc = "returned", !.replied = replied,
                           !.log = Append(@, "completed")]]
    /\ UNCHANGED <<commands, registered>>
    /\ UNCHANGED nonRegVars

\* the awaited handler settles: it may have replied itself, and returns or throws
executeHandlerSettles(i, handlerReplied, throws) ==
    /\ inv[i].pc = "handler"
    /\ LET replied == inv[i].replied \/ handlerReplied
       IN inv' = [inv EXCEPT ![i] =
            IF throws
            THEN [@ EXCEPT !.pc = "report", !.replied = replied,
                           !.log = Append(Append(@, "threw"),
                                          reportCall(inv[i].deferred, replied))]
            ELSE [@ EXCEPT !.pc = "returned", !.replied = replied,
                           !.log = Append(@, "completed")]]
    /\ UNCHANGED <<commands, registered>>

ExecuteHandlerSettles(i, handlerReplied, throws) ==
    /\ executeHandlerSettles(i, handlerReplied, throws)
    /\ UNCHANGED nonRegVars

\* mutant: the inner try is missing, a failed report escapes
ExecuteReportSettlesUnguarded(i, ok) ==
    /\ inv[i].pc = "report"
    /\ inv' = [inv EXCEPT ![i] =
                 IF ok THEN [@ EXCEPT !.pc = "returned", !.log = Append(@, "reported")]
                 ELSE [@ EXCEPT !.pc = "rejected", !.log = Append(@, "report_failed")]]
    /\ UNCHANGED <<commands, registered>>
    /\ UNCHANGED nonRegVars

\* the awaited editReply / reply of the catch block settles; its failure is ignored
ExecuteReportSettles(i, ok) ==
    /\ inv[i].pc = "report"
    /\ inv' = [inv EXCEPT ![i] =
                 [@ EXCEPT !.pc = "returned",
                           !.log = Append(@, IF ok THEN "reported" ELSE "report_failed")]]
    /\ UNCHANGED <<commands, registered>>
    /\ UNCHANGED nonRegVars

RegNext ==
    \/ \E name \in CommandNames, h \in HandlerIds, ra, df \in RegisterOptionValues :
          Register(name, h, ra, df)
    \/ \E i \in Invocations, name \in CommandNames \cup {"nope"}, u \in UserIds :
          ExecuteBegin(i, name, u)
    \/ \E i \in Invocations, ok \in BOOLEAN : ExecuteRejectionSettles(i, ok)
    \/ \E i \in Invocations, ok \in BOOLEAN : ExecuteDeferSettles(i, ok)
    \/ \E i \in Invocations, r, t \in BOOLEAN : ExecuteHandlerSettles(i, r, t)
    \/ \E i \in Invocations, ok \in BOOLEAN : ExecuteReportSettles(i, ok)

\* the registry with its register() calls kept, and one execute
OverwriteNext ==
    \/ \E name \in CommandNames, h \in HandlerIds, ra, df \in RegisterOptionValues :
          RegisterRecorded(name, h, ra, df)
    \/ \E name \in CommandNames \cup {"nope"}, u \in UserIds : ExecuteBegin(1, name, u)
    \/ \E ok \in BOOLEAN : ExecuteRejectionSettles(1, ok)
    \/ \E ok \in BOOLEAN : ExecuteDeferSettles(1, ok)
    \/ \E r, t \in BOOLEAN : ExecuteHandlerSettles(1, r, t)
    \/ \E ok \in BOOLEAN : ExecuteReportSettles(1, ok)


(***************************************************************************)
(* TokenBucket: tokens are kept in thousandths of a token, time in ms, so  *)
(* that elapsed * refillRate / 1000 is exact.                              *)
(***************************************************************************)
Min(a, b) == IF a <= b THEN a ELSE b
Max(a, b) == IF a >= b THEN a ELSE b
CeilDiv(a, b) == (a + b - 1) \div b

NoBucket == [capacity |-> 0, tokens |-> 0, refillRate |-> 0, lastRefill |-> 0]

\* new TokenBucket(capacity, refillRate) at time t
TokenBucket(capacity, refillRate, t) ==
    [capacity |-> capacity, tokens |-> capacity * 1000,
     refillRate |-> refillRate, lastRefill |-> t]

\* mutant: the refill is not capped at the capacity
refillUncapped(b, t) ==
    [b EXCEPT !.tokens = b.tokens + (t - b.lastRefill) * b.refillRate,
              !.lastRefill = t]

\* TokenBucket._refill at time t
refill(b, t) ==
    [b EXCEPT !.tokens = Min(b.capacity * 1000, b.tokens + (t - b.lastRefill) * b.refillRate),
              !.lastRefill = t]

\* mutant: a refused tryConsume takes what tokens there are
tryConsumeDraining(b, t, count) ==
    IF refill(b, t).tokens >= count * 1000
    THEN [refill(b, t) EXCEPT !.tokens = @ - count * 1000]
    ELSE [refill(b, t) EXCEPT !.tokens = 0]

\* mutant: the wait is rounded down to whole milliseconds
getWaitTimeFloor(b, t, count) ==
    IF refill(b, t).tokens >= count * 1000 THEN 0
    ELSE (count * 1000 - refill(b, t).tokens) \div b.refillRate

\* TokenBucket.tryConsume(count) at time t: the bucket afterwards, and the result
tryConsumeResult(b, t, count) == refill(b, t).tokens >= count * 1000
tryConsume(b, t, count) ==
    IF tryConsumeResult(b, t, count)
    THEN [refill(b, t) EXCEPT !.tokens = @ - count * 1000]
    ELSE refill(b, t)

\* TokenBucket.getWaitTime(count) at time t, in ms (the bucket is refilled too)
getWaitTime(b, t, count) ==
    IF refill(b, t).tokens >= count * 1000 THEN 0
    ELSE CeilDiv(count * 1000 - refill(b, t).tokens, b.refillRate)

(***************************************************************************)
(* A TokenBucket used on its own: constructed with any capacity and refill *)
(* rate, then called in any order under a clock that only moves forward.   *)
(***************************************************************************)
Capacities == 1..MaxCapacity
RefillRates == {1, 2, 3}
Counts == 1..MaxCount
ClockSteps == {TickMs}
Overshoots == {0, TickMs}

NoCall == [op |-> "none", count |-> 0, at |-> 0, before |-> NoBucket,
           result |-> FALSE, wait |-> 0]
NoProbe == [stage |-> "fresh", consumed |-> 0]

\* time passes without any call on the bucket
BucketElapse(d) ==
    /\ clock + d <= MaxTicks * TickMs
    /\ clock' = clock + d
    /\ probe' = [probe EXCEPT !.stage = "off"]
    /\ UNCHANGED <<tokenBucket, lastCall>>
    /\ UNCHANGED nonBucketVars

\* bucket._refill()
BucketRefill ==
    /\ tokenBucket' = refill(tokenBucket, clock)
    /\ lastCall' = [NoCall EXCEPT !.op = "refill", !.at = clock, !.before = tokenBucket]
    /\ probe' = [probe EXCEPT !.stage = "off"]
    /\ UNCHANGED clock
    /\ UNCHANGED nonBucketVars

\* bucket.tryConsume(count)
BucketTryConsume(count) ==
    /\ tokenBucket' = tryConsume(tokenBucket, clock, count)
    /\ lastCall' = [NoCall EXCEPT !.op = "tryConsume", !.count = count, !.at = clock,
                              !.before = tokenBucket,
                              !.result = tryConsumeResult(tokenBucket, clock, count)]
    /\ probe' =
         IF probe.stage = "fresh"
         THEN IF tryConsumeResult(tokenBucket, clock, count)
              THEN [stage |-> IF probe.consumed + count = tokenBucket.capacity
                              THEN "drained" ELSE "fresh",
                    consumed |-> probe.consumed + count]
              ELSE probe
         ELSE IF probe.stage = "slept" /\ count = 1
              THEN [probe EXCEPT !.stage = "retried"]
              ELSE [probe EXCEPT !.stage = "off"]
    /\ UNCHANGED clock
    /\ UNCHANGED nonBucketVars

\* bucket.getWaitTime(count)
BucketGetWaitTime(count) ==
    /\ tokenBucket' = refill(tokenBucket, clock)
    /\ lastCall' = [NoCall EXCEPT !.op = "getWaitTime", !.count = count, !.at = clock,
                              !.before = tokenBucket,
                              !.wait = getWaitTime(tokenBucket, clock, count)]
    /\ probe' = [probe EXCEPT !.stage = IF probe.stage = "drained" /\ count = 1
                                        THEN "asked" ELSE "off"]
    /\ UNCHANGED clock
    /\ UNCHANGED nonBucketVars

\* sleep(waitTime) on what getWaitTime has just returned; a timer may fire late
BucketSleep(over) ==
    /\ lastCall.op = "getWaitTime"
    /\ clock + lastCall.wait + over <= MaxTicks * TickMs
    /\ clock' = clock + lastCall.wait + over
    /\ lastCall' = [lastCall EXCEPT !.op = "sleep"]
    /\ probe' = [probe EXCEPT !.stage = IF probe.stage = "asked"
                                        THEN "slept" ELSE "off"]
    /\ UNCHANGED tokenBucket
    /\ UNCHANGED nonBucketVars

BucketNext ==
    \/ \E d \in ClockSteps : BucketElapse(d)
    \/ BucketRefill
    \/ \E count \in Counts : BucketTryConsume(count)
    \/ \E count \in Counts : BucketGetWaitTime(count)
    \/ \E over \in Overshoots : BucketSleep(over)

(***************************************************************************)
(* RateLimiter                                                             *)
(***************************************************************************)
Routes == {"messages:1", "channel:1"}
OperationTypes == {"default", "delete"}
GlobalLimits == {1, 2}
MessageLimits == {1}
DeleteLimits == {2}
Waiters == 1..NumWaiters

NewWaiter ==
    [pc |-> "idle", route |-> "global", type |-> "default", wakeAt |-> 0,
     globalConsumed |-> FALSE, routeConsumed |-> FALSE]

\* new RateLimiter(options): the options, no route bucket, nobody waiting
LimiterOptions == [globalLimit : GlobalLimits, messageLimit : MessageLimits,
                   deleteLimit : DeleteLimits]
DefaultLimits == [globalLimit |-> 1, messageLimit |-> 1, deleteLimit |-> 2]
NoRouteBuckets == [r \in Routes |-> NoBucket]
NoWaiters == [w \in Waiters |-> NewWaiter]
NoPasses == [b \in Routes \cup {"global"} |-> 0]

\* mutant: a bucket of another capacity is replaced by a new one
getBucketResizing(buckets, route, capacity, t) ==
    IF buckets[route] = NoBucket \/ buckets[route].capacity # capacity
    THEN TokenBucket(capacity, capacity, t)
    ELSE buckets[route]

\* RateLimiter._getBucket(route, capacity) at time t
getBucket(buckets, route, capacity, t) ==
    IF buckets[route] = NoBucket THEN TokenBucket(capacity, capacity, t) ELSE buckets[route]

routeCapacity(type) == IF type = "delete" THEN limits.deleteLimit ELSE limits.messageLimit

\* wait(): "Check route-specific limit", run by waiter w whose record is rec
\* (global part done): sleeps if the route bucket asks for it, else consumes.
RoutePart(w, rec) ==
    IF rec.route = "global"
    THEN /\ waiter' = [waiter EXCEPT ![w] = [rec EXCEPT !.pc = "returned"]]
         /\ routeBuckets' = routeBuckets
         /\ passes' = [passes EXCEPT !["global"] = @ + 1]
    ELSE LET bucket == getBucket(routeBuckets, rec.route, routeCapacity(rec.type), now)
             routeWait == getWaitTime(bucket, now, 1)
         IN IF routeWait > 0
            THEN /\ waiter' = [waiter EXCEPT ![w] =
                        [rec EXCEPT !.pc = "sleep_route", !.wakeAt = now + routeWait]]
                 /\ routeBuckets' = [routeBuckets EXCEPT ![rec.route] = refill(bucket, now)]
                 /\ passes' = [passes EXCEPT !["global"] = @ + 1]
            ELSE /\ waiter' = [waiter EXCEPT ![w] =
                        [rec EXCEPT !.pc = "returned",
                                    !.routeConsumed = tryConsumeResult(bucket, now, 1)]]
                 /\ routeBuckets' = [routeBuckets EXCEPT ![rec.route] = tryConsume(bucket, now, 1)]
                 /\ passes' = [passes EXCEPT !["global"] = @ + 1, ![rec.route] = @ + 1]

\* wait(route, type), from the call to its first await (or to its end)
waitCall(w, route, type) ==
    /\ waiter[w].pc = "idle"
    /\ LET rec == [waiter[w] EXCEPT !.route = route, !.type = type]
           globalWait == getWaitTime(globalBucket, now, 1)
       IN IF globalWait > 0
          THEN /\ waiter' = [waiter EXCEPT ![w] =
                      [rec EXCEPT !.pc = "sleep_global", !.wakeAt = now + globalWait]]
               /\ globalBucket' = refill(globalBucket, now)
               /\ UNCHANGED <<routeBuckets, passes>>
          ELSE /\ globalBucket' = tryConsume(globalBucket, now, 1)
               /\ RoutePart(w, [rec EXCEPT !.globalConsumed =
                                    tryConsumeResult(globalBucket, now, 1)])
    /\ UNCHANGED <<now, limits>>

\* wait(route, type) called on its own
WaitBegin(w, route, type) ==
    /\ waitCall(w, route, type)
    /\ UNCHANGED nonLimVars

\* the awaited delay(globalWait) is over: consume from the global bucket, go on
WaitAfterGlobalDelay(w) ==
    /\ waiter[w].pc = "sleep_global"
    /\ now >= waiter[w].wakeAt
    /\ globalBucket' = tryConsume(globalBucket, now, 1)
    /\ RoutePart(w, [waiter[w] EXCEPT !.globalConsumed =
                         tryConsumeResult(globalBucket, now, 1)])
    /\ UNCHANGED <<now, limits>>
    /\ UNCHANGED nonLimVars

\* the awaited delay(routeWait) is over: consume from the route bucket, return
WaitAfterRouteDelay(w) ==
    /\ waiter[w].pc = "sleep_route"
    /\ now >= waiter[w].wakeAt
    /\ LET bucket == routeBuckets[waiter[w].route]
       IN /\ routeBuckets' = [routeBuckets EXCEPT ![waiter[w].route] = tryConsume(bucket, now, 1)]
          /\ waiter' = [waiter EXCEPT ![w] =
                 [@ EXCEPT !.pc = "returned",
                           !.routeConsumed = tryConsumeResult(bucket, now, 1)]]
          /\ passes' = [passes EXCEPT ![waiter[w].route] = @ + 1]
    /\ UNCHANGED <<now, limits, globalBucket>>
    /\ UNCHANGED nonLimVars

\* the clock advances
Tick ==
    /\ now < MaxTicks * TickMs
    /\ now' = now + TickMs
    /\ UNCHANGED <<limits, globalBucket, routeBuckets, waiter, passes>>
    /\ UNCHANGED nonLimVars

(***************************************************************************)
(* RateLimiter.execute(fn, route, type): await this.wait(route, type);     *)
(* return fn().  fn returns a value, throws, or returns a promise that is  *)
(* rejected; the clock goes on while a delay is pending.                   *)
(***************************************************************************)
Callers == {1, 2}
FnOutcomes ==
    { [kind |-> "returns", value |-> 1], [kind |-> "returns", value |-> 2],
      [kind |-> "throws", value |-> 1], [kind |-> "rejects", value |-> 2] }
NoOutcome == [kind |-> "none", value |-> 0]
NewExecution ==
    [pc |-> "idle", fn |-> NoOutcome, fnCalls |-> 0, calledAfterWait |-> FALSE,
     outcome |-> NoOutcome]
NoExecutions == [w \in Waiters |-> NewExecution]

\* what the promise of execute settles to, given what fn() did
settle(fnOutcome) ==
    IF fnOutcome.kind = "returns"
    THEN [kind |-> "fulfilled", value |-> fnOutcome.value]
    ELSE [kind |-> "rejected", value |-> fnOutcome.value]

\* execute(fn, route, type), from the call to its await of wait()
ExecuteCall(w, route, type) ==
    /\ executing[w].pc = "idle"
    /\ waitCall(w, route, type)
    /\ executing' = [executing EXCEPT ![w] = [@ EXCEPT !.pc = "awaiting"]]
    /\ UNCHANGED nonLimExecVars

\* mutant: a failure of fn is swallowed
ExecuteAfterWaitSwallowing(w, fn) ==
    /\ executing[w].pc = "awaiting"
    /\ waiter[w].pc = "returned"
    /\ executing' = [executing EXCEPT ![w] =
           [@ EXCEPT !.pc = "settled", !.fn = fn, !.fnCalls = @ + 1,
                     !.calledAfterWait = TRUE,
                     !.outcome = [kind |-> "fulfilled", value |-> fn.value]]]
    /\ UNCHANGED limVars
    /\ UNCHANGED nonExecVars

\* wait() has returned: return fn(), fn doing what fn says
ExecuteAfterWait(w, fn) ==
    /\ executing[w].pc = "awaiting"
    /\ waiter[w].pc = "returned"
    /\ executing' = [executing EXCEPT ![w] =
           [@ EXCEPT !.pc = "settled", !.fn = fn, !.fnCalls = @ + 1,
                     !.calledAfterWait = waiter[w].pc = "returned",
                     !.outcome = settle(fn)]]
    /\ UNCHANGED limVars
    /\ UNCHANGED nonExecVars

Asleep(w) == waiter[w].pc \in {"sleep_global", "sleep_route"} /\ now < waiter[w].wakeAt

\* the clock advances; it is followed for as long as a delay is pending
ClockAdvances ==
    /\ now < MaxTicks * TickMs \/ \E w \in Waiters : Asleep(w)
    /\ now' = now + TickMs
    /\ UNCHANGED <<limits, globalBucket, routeBuckets, waiter, passes>>
    /\ UNCHANGED nonLimVars

ExecNext ==
    \/ \E w \in Callers, route \in Routes \cup {"global"}, type \in OperationTypes :
          ExecuteCall(w, route, type)
    \/ \E w \in Callers : WaitAfterGlobalDelay(w)
    \/ \E w \in Callers : WaitAfterRouteDelay(w)
    \/ \E w \in Callers, fn \in FnOutcomes : ExecuteAfterWait(w, fn)
    \/ ClockAdvances

ExecFairness ==
    /\ WF_vars(ClockAdvances)
    /\ \A w \in Callers : WF_vars(WaitAfterGlobalDelay(w))
    /\ \A w \in Callers : WF_vars(WaitAfterRouteDelay(w))
    /\ \A w \in Callers : WF_vars(\E fn \in FnOutcomes : ExecuteAfterWait(w, fn))

LimNext ==
    \/ \E w \in Waiters, route \in Routes \cup {"global"}, type \in OperationTypes :
          WaitBegin(w, route, type)
    \/ \E w \in Waiters : WaitAfterGlobalDelay(w)
    \/ \E w \in Waiters : WaitAfterRouteDelay(w)
    \/ Tick

(***************************************************************************)
(* withRetry (utils/retry)                                                 *)
(***************************************************************************)
RECURSIVE Pow(_, _)
Pow(b, e) == IF e = 0 THEN 1 ELSE b * Pow(b, e - 1)

\* The errors an operation throws: the class, the HTTP status (status or
\* httpStatus), whether the message holds one of the retryable substrings,
\* and the retryAfter it carries (RateLimitError's, or the one
\* WebhookService.send sets on the Error it throws on a 429 response).
NoError == [class |-> "null", status |-> 0, transientMessage |-> FALSE, retryAfter |-> 0]
ErrorValues ==
    { [class |-> "RateLimitError", status |-> 0, transientMessage |-> FALSE, retryAfter |-> 4],
      [class |-> "RateLimitError", status |-> 0, transientMessage |-> FALSE, retryAfter |-> 0],
      [class |-> "Error", status |-> 429, transientMessage |-> FALSE, retryAfter |-> 0],
      [class |-> "Error", status |-> 429, transientMessage |-> FALSE, retryAfter |-> 4],
      [class |-> "Error", status |-> 0, transientMessage |-> TRUE, retryAfter |-> 0],
      [class |-> "Error", status |-> 403, transientMessage |-> FALSE, retryAfter |-> 0] }

\* new RetryExhaustedError(message, attempts, lastError, { context })
RetryExhaustedError(attempts, lastError, context) ==
    [class |-> "RetryExhaustedError", attempts |-> attempts,
     lastError |-> lastError, context |-> context]

\* the options a caller passes; DEFAULT_OPTIONS fills in what it leaves out
RetryOptions ==
    [maxAttempts : 0..MaxAttemptsOption, baseDelay : {1, 2}, maxDelay : {3},
     factor : {2}, jitter : BOOLEAN, context : {"operation", "fetching"}]

\* Math.floor(Math.random() * baseDelay): the two ends of its range (the
\* whole range when baseDelay <= 2)
JitterAddends(baseDelay) == {0, Max(baseDelay - 1, 0)}

\* mutant: the exponential delay is not capped by maxDelay
calculateDelayUncapped(attempt, options, jitterAddend) ==
    options.baseDelay * Pow(options.factor, attempt)
        + (IF options.jitter THEN jitterAddend ELSE 0)

\* mutant: the jitter ranges over twice the base delay
calculateDelayWideJitter(attempt, options, jitterAddend) ==
    Min(options.baseDelay * Pow(options.factor, attempt), options.maxDelay)
        + (IF options.jitter THEN 2 * jitterAddend ELSE 0)

\* calculateDelay(attempt, options), jitterAddend standing for the random part
calculateDelay(attempt, options, jitterAddend) ==
    Min(options.baseDelay * Pow(options.factor, attempt), options.maxDelay)
        + (IF options.jitter THEN jitterAddend ELSE 0)

\* mutant: only the message is inspected
isRetryableErrorByMessageOnly(error) == error.transientMessage

isRetryableError(error) ==
    \/ error.class = "RateLimitError"
    \/ error.status = 429
    \/ error.transientMessage

\* "Calculate delay, respecting rate limit headers if available"
retryDelay(attempt, options, error, jitterAddend) ==
    IF error.class = "RateLimitError" /\ error.retryAfter # 0
    THEN Max(calculateDelay(attempt, options, jitterAddend), error.retryAfter)
    ELSE calculateDelay(attempt, options, jitterAddend)

NewRetry ==
    [pc |-> "idle", opts |-> [maxAttempts |-> 0, baseDelay |-> 1, maxDelay |-> 3,
                              factor |-> 2, jitter |-> FALSE, context |-> "operation"],
     attempt |-> 0, lastError |-> NoError, calls |-> 0, sleeps |-> <<>>,
     value |-> "none", thrown |-> NoError]

\* the for loop's test: run the next attempt, or fall out of the loop and
\* throw RetryExhaustedError
loopTest(r) ==
    IF r.attempt < r.opts.maxAttempts
    THEN [r EXCEPT !.pc = "call"]
    ELSE [r EXCEPT !.pc = "threw",
                   !.thrown = RetryExhaustedError(r.opts.maxAttempts, r.lastError,
                                                  r.opts.context)]

\* withRetry(fn, options) up to the first call of fn
retryBegin(options) == loopTest([NewRetry EXCEPT !.opts = options])

\* fn() resolved with value: return it
retryOnSuccess(r, value) ==
    [r EXCEPT !.pc = "returned", !.calls = @ + 1, !.value = value]

\* mutant: the error is classified before the last-attempt test, and the
\* classification is skipped (every error is retried)
retryOnFailureRetryingAll(r, error, jitterAddend) ==
    LET failed == [r EXCEPT !.calls = @ + 1, !.lastError = error]
    IN IF r.attempt = r.opts.maxAttempts - 1
       THEN [failed EXCEPT !.pc = "threw",
                           !.thrown = RetryExhaustedError(r.opts.maxAttempts, error,
                                                          r.opts.context)]
       ELSE [failed EXCEPT !.pc = "sleep",
                           !.sleeps = Append(@, retryDelay(r.attempt, r.opts, error,
                                                           jitterAddend))]

\* mutant: the last attempt is recognised one iteration late
retryOnFailureLateLastTest(r, error, jitterAddend) ==
    LET failed == [r EXCEPT !.calls = @ + 1, !.lastError = error]
    IN IF r.attempt = r.opts.maxAttempts
       THEN [failed EXCEPT !.pc = "threw",
                           !.thrown = RetryExhaustedError(r.opts.maxAttempts, error,
                                                          r.opts.context)]
       ELSE IF ~isRetryableError(error)
       THEN [failed EXCEPT !.pc = "threw", !.thrown = error]
       ELSE [failed EXCEPT !.pc = "sleep",
                           !.sleeps = Append(@, retryDelay(r.attempt, r.opts, error,
                                                           jitterAddend))]

\* fn() rejected with error: the catch block
retryOnFailure(r, error, jitterAddend) ==
    LET failed == [r EXCEPT !.calls = @ + 1, !.lastError = error]
    IN IF r.attempt = r.opts.maxAttempts - 1
       THEN [failed EXCEPT !.pc = "threw",
                           !.thrown = RetryExhaustedError(r.opts.maxAttempts, error,
                                                          r.opts.context)]
       ELSE IF ~isRetryableError(error)
       THEN [failed EXCEPT !.pc = "threw", !.thrown = error]
       ELSE [failed EXCEPT !.pc = "sleep",
                           !.sleeps = Append(@, retryDelay(r.attempt, r.opts, error,
                                                           jitterAddend))]

\* delay(retryDelay) is over: attempt++ and the loop's test
retryAfterDelay(r) == loopTest([r EXCEPT !.attempt = @ + 1])

\* the operation under retry: it throws script[k] at its k-th call while the
\* script lasts, and succeeds afterwards
SuccessValue == "result"
Scripts == UNION {[1..n -> ErrorValues] : n \in 0..MaxFailures}
operationFails(k) == k <= Len(script)

WithRetry(options) ==
    /\ rt.pc = "idle"
    /\ rt' = retryBegin(options)
    /\ UNCHANGED script
    /\ UNCHANGED nonRetryVars

\* the awaited fn() settles
RetryCallSettles(jitterAddend) ==
    /\ rt.pc = "call"
    /\ rt' = IF operationFails(rt.calls + 1)
             THEN retryOnFailure(rt, script[rt.calls + 1], jitterAddend)
             ELSE retryOnSuccess(rt, SuccessValue)
    /\ UNCHANGED script
    /\ UNCHANGED nonRetryVars

\* the awaited delay(retryDelay) is over
RetryDelayOver ==
    /\ rt.pc = "sleep"
    /\ rt' = retryAfterDelay(rt)
    /\ UNCHANGED script
    /\ UNCHANGED nonRetryVars

RetryNext ==
    \/ \E options \in RetryOptions : WithRetry(options)
    \/ \E j \in JitterAddends(rt.opts.baseDelay) : RetryCallSettles(j)
    \/ RetryDelayOver

(***************************************************************************)
(* isRetryableError on the errors as thrown (utils/retry).  A message is   *)
(* the sequence of its characters.                                         *)
(***************************************************************************)
UpperCase == <<"A", "B", "C", "D", "E", "F", "G", "H", "I", "J", "K", "L", "M",
               "N", "O", "P", "Q", "R", "S", "T", "U", "V", "W", "X", "Y", "Z">>
LowerCase == <<"a", "b", "c", "d", "e", "f", "g", "h", "i", "j", "k", "l", "m",
               "n", "o", "p", "q", "r", "s", "t", "u", "v", "w", "x", "y", "z">>

\* String.prototype.toLowerCase
toLowerCase(text) ==
    [k \in 1..Len(text) |->
        IF \E u \in 1..Len(UpperCase) : UpperCase[u] = text[k]
        THEN LowerCase[CHOOSE u \in 1..Len(UpperCase) : UpperCase[u] = text[k]]
        ELSE text[k]]

\* String.prototype.includes
includes(text, part) ==
    \E k \in 1..(Len(text) - Len(part) + 1) : SubSeq(text, k, k + Len(part) - 1) = part

\* const retryableMessages = ['rate limit', 'timeout', 'ECONNRESET',
\* 'ETIMEDOUT', 'ECONNREFUSED', 'socket hang up', 'network', 'temporary', '5']
retryableMessages ==
    << <<"r", "a", "t", "e", " ", "l", "i", "m", "i", "t">>,
       <<"t", "i", "m", "e", "o", "u", "t">>,
       <<"E", "C", "O", "N", "N", "R", "E", "S", "E", "T">>,
       <<"E", "T", "I", "M", "E", "D", "O", "U", "T">>,
       <<"E", "C", "O", "N", "N", "R", "E", "F", "U", "S", "E", "D">>,
       <<"s", "o", "c", "k", "e", "t", " ", "h", "a", "n", "g", " ", "u",
         "p">>,
       <<"n", "e", "t", "w", "o", "r", "k">>,
       <<"t", "e", "m", "p", "o", "r", "a", "r", "y">>,
       <<"5">> >>

\* retryableMessages.some(msg => errorMessage.includes(msg.toLowerCase()))
hasRetryableMessage(message) ==
    LET errorMessage == toLowerCase(message)
    IN \E m \in 1..Len(retryableMessages) :
          includes(errorMessage, toLowerCase(retryableMessages[m]))

\* The messages of the errors handed to the classifier, each with the kind
\* of failure it reports.
Messages ==
    << [kind |-> "rate-limit",
        text |-> <<"Y", "o", "u", " ", "a", "r", "e", " ", "b", "e", "i", "n", "g",
                  " ", "r", "a", "t", "e", " ", "l", "i", "m", "i", "t", "e", "d",
                  ".">>],
       [kind |-> "timeout",
        text |-> <<"R", "e", "q", "u", "e", "s", "t", " ", "t", "i", "m", "e", "o",
                  "u", "t">>],
       [kind |-> "timeout",
        text |-> <<"c", "o", "n", "n", "e", "c", "t", " ", "E", "T", "I", "M", "E",
                  "D", "O", "U", "T">>],
       [kind |-> "reset",
        text |-> <<"r", "e", "a", "d", " ", "E", "C", "O", "N", "N", "R", "E", "S",
                  "E", "T">>],
       [kind |-> "refused",
        text |-> <<"c", "o", "n", "n", "e", "c", "t", " ", "E", "C", "O", "N", "N",
                  "R", "E", "F", "U", "S", "E", "D">>],
       [kind |-> "hang-up",
        text |-> <<"s", "o", "c", "k", "e", "t", " ", "h", "a", "n", "g", " ", "u",
                  "p">>],
       [kind |-> "network",
        text |-> <<"N", "e", "t", "w", "o", "r", "k", " ", "e", "r", "r", "o", "r">>],
       [kind |-> "5xx",
        text |-> <<"5", "0", "3", " ", "S", "e", "r", "v", "i", "c", "e", " ", "U",
                  "n", "a", "v", "a", "i", "l", "a", "b", "l", "e">>],
       [kind |-> "5xx",
        text |-> <<"I", "n", "t", "e", "r", "n", "a", "l", " ", "S", "e", "r", "v",
                  "e", "r", " ", "E", "r", "r", "o", "r">>],
       [kind |-> "not-found",
        text |-> <<"U", "n", "k", "n", "o", "w", "n", " ", "C", "h", "a", "n", "n",
                  "e", "l">>],
       [kind |-> "forbidden",
        text |-> <<"M", "i", "s", "s", "i", "n", "g", " ", "P", "e", "r", "m", "i",
                  "s", "s", "i", "o", "n", "s">>],
       [kind |-> "validation",
        text |-> <<"I", "n", "v", "a", "l", "i", "d", " ", "C", "h", "a", "n", "n",
                  "e", "l", " ", "I", "D", ":", " ", "1", "2", "3", "4", "5">>] >>

\* An error as thrown: its class, an HTTP status (0: none) held in .status or
\* in .httpStatus, and its message.
ThrownErrors ==
    [class : {"Error", "RateLimitError"}, code : {0, 403, 404, 429, 500, 503},
     codeIn : {"status", "httpStatus"}, message : 1..Len(Messages)]
NoThrown == [class |-> "null", code |-> 0, codeIn |-> "status", message |-> 1]

\* what isRetryableError reads of the error
asError(t) ==
    [class |-> t.class, status |-> t.code,
     transientMessage |-> hasRetryableMessage(Messages[t.message].text),
     retryAfter |-> 0]

\* isRetryableError(error) is called on the error
Classify ==
    /\ verdict = "none"
    /\ verdict' = IF isRetryableError(asError(thrown)) THEN "retryable" ELSE "fatal"
    /\ UNCHANGED thrown
    /\ UNCHANGED nonClassVars

ClassifierNext == Classify

(***************************************************************************)
(* DiscordService.fetchMessages (services/discord)                         *)
(***************************************************************************)
DEFAULT_OPTIONS ==
    [maxAttempts |-> 5, baseDelay |-> 1000, maxDelay |-> 30000,
     factor |-> 2, jitter |-> TRUE, context |-> "operation"]

\* { ...DEFAULT_OPTIONS, context: `fetching messages in ${channel.id}` }
fetchRetryOptions == [DEFAULT_OPTIONS EXCEPT !.context = "fetching messages"]

\* the errors a page request is made to fail with: a transient one, a fatal one
FetchErrors == {e \in ErrorValues : e.class = "Error" /\ e.status # 429}

\* channel.messages.fetch({ limit, before }): the newest `limit` messages
\* older than `before` (0: no cursor), newest first
page(limit, before) ==
    LET newest == IF before = 0 THEN channelSize ELSE Min(before - 1, channelSize)
    IN [j \in 1..Min(limit, newest) |-> newest - j + 1]

\* options.onProgress: absent, an observer that returns, one that throws, one
\* that returns at its first call and throws at its second
ProgressObservers == {"none", "returns", "throws", "throwsAtSecond"}
observerThrows(f) ==
    \/ f.onProgress = "throws"
    \/ f.onProgress = "throwsAtSecond" /\ f.progressCalls >= 1

\* limit = Infinity, what the scrapers pass for "unlimited": a number no
\* channel reaches, so that totalFetched < limit holds and limit -
\* totalFetched exceeds batchSize throughout, as with the IEEE infinity
Infinity == 1000000

NewFetch ==
    [pc |-> "idle", limit |-> 0, onProgress |-> "none",
     allMessages |-> <<>>, lastId |-> 0, totalFetched |-> 0, retry |-> NewRetry,
     limiterWaits |-> 0, pageRequests |-> 0, pagesServed |-> <<>>, pages |-> <<>>, failedCalls |-> 0,
     fatalFailures |-> 0, progressCalls |-> 0, caught |-> "nothing", result |-> <<>>]

\* mutant: the while test lets the loop run once more at the limit
fetchLoopTestInclusive(f) ==
    IF f.totalFetched <= f.limit
    THEN [f EXCEPT !.pc = "page", !.retry = retryBegin(fetchRetryOptions)]
    ELSE [f EXCEPT !.pc = "returned", !.retry = NewRetry, !.result = f.allMessages]

\* the while test: ask for the next page through withRetry, or return allMessages
fetchLoopTest(f) ==
    IF f.totalFetched < f.limit
    THEN [f EXCEPT !.pc = "page", !.retry = retryBegin(fetchRetryOptions)]
    ELSE [f EXCEPT !.pc = "returned", !.retry = NewRetry, !.result = f.allMessages]

\* break: leave the loop and return allMessages
fetchBreak(f) == [f EXCEPT !.pc = "returned", !.retry = NewRetry, !.result = f.allMessages]

\* mutant: the loop body has no try / catch, the failure leaves fetchMessages
fetchCatchMissing(f, thrownBy) == [f EXCEPT !.pc = "threw", !.caught = thrownBy]

\* the catch block of the loop body: log and break
fetchCatch(f, thrownBy) == fetchBreak([f EXCEPT !.caught = thrownBy])

\* mutant: the cursor is set to the first (newest) item of the page
fetchOnPageCursorNewest(f, messages) ==
    IF Len(messages) = 0
    THEN fetchBreak(f)
    ELSE LET appended == [f EXCEPT !.allMessages = @ \o messages,
                                   !.totalFetched = @ + Len(messages),
                                   !.lastId = messages[1]]
         IN IF f.onProgress = "none" THEN fetchLoopTest(appended)
            ELSE IF ~observerThrows(f)
            THEN fetchLoopTest([appended EXCEPT !.progressCalls = @ + 1])
            ELSE fetchCatch([appended EXCEPT !.progressCalls = @ + 1], "onProgress")

\* mutant: an empty page does not end the loop
fetchOnPageNoBreak(f, messages) ==
    LET appended == [f EXCEPT !.allMessages = @ \o messages,
                              !.totalFetched = @ + Len(messages),
                              !.lastId = IF Len(messages) = 0 THEN @
                                         ELSE messages[Len(messages)]]
    IN IF f.onProgress = "none" THEN fetchLoopTest(appended)
       ELSE IF ~observerThrows(f)
       THEN fetchLoopTest([appended EXCEPT !.progressCalls = @ + 1])
       ELSE fetchCatch([appended EXCEPT !.progressCalls = @ + 1], "onProgress")

\* mutant: the observer is called before the page is appended
fetchOnPageObserverFirst(f, messages) ==
    IF Len(messages) = 0
    THEN fetchBreak(f)
    ELSE LET appended == [f EXCEPT !.allMessages = @ \o messages,
                                   !.totalFetched = @ + Len(messages),
                                   !.lastId = messages[Len(messages)]]
         IN IF f.onProgress = "none" THEN fetchLoopTest(appended)
            ELSE IF ~observerThrows(f)
            THEN fetchLoopTest([appended EXCEPT !.progressCalls = @ + 1])
            ELSE fetchCatch([f EXCEPT !.progressCalls = @ + 1], "onProgress")

\* the loop body after withRetry returned the page
fetchOnPage(f, messages) ==
    IF Len(messages) = 0
    THEN fetchBreak(f)
    ELSE LET appended == [f EXCEPT !.allMessages = @ \o messages,
                                   !.totalFetched = @ + Len(messages),
                                   !.lastId = messages[Len(messages)]]
         IN IF f.onProgress = "none" THEN fetchLoopTest(appended)
            ELSE IF ~observerThrows(f)
            THEN fetchLoopTest([appended EXCEPT !.progressCalls = @ + 1])
            ELSE fetchCatch([appended EXCEPT !.progressCalls = @ + 1], "onProgress")

\* mutant: an error thrown by withRetry is neither caught nor passed on, the
\* loop is never resumed
fetchAfterRetryDroppingFailure(f, r, messages) ==
    IF r.pc = "returned" THEN fetchOnPage(f, messages)
    ELSE [f EXCEPT !.retry = r]

\* the loop body once withRetry has settled
fetchAfterRetry(f, r, messages) ==
    IF r.pc = "returned" THEN fetchOnPage(f, messages)
    ELSE IF r.pc = "threw" THEN fetchCatch(f, "withRetry")
    ELSE [f EXCEPT !.retry = r]

\* fetchMessages(channel, limit, options) up to its first await
FetchMessages(limit, before, onProgress) ==
    /\ fs.pc = "idle"
    /\ fs' = fetchLoopTest([NewFetch EXCEPT !.limit = limit, !.lastId = before,
                                            !.onProgress = onProgress])
    /\ UNCHANGED channelSize
    /\ UNCHANGED nonFetchVars

\* mutant: every page is asked at full size
fetchCountIgnoringLimit(f) == batchSize

\* const fetchCount = Math.min(batchSize, limit - totalFetched)
fetchCount(f) == Min(batchSize, f.limit - f.totalFetched)

\* mutant: the limiter is waited on before withRetry, once per page
fetchAttemptWaitingOncePerPage(f) ==
    [f EXCEPT !.limiterWaits = @ + (IF f.retry.calls = 0 THEN 1 ELSE 0),
              !.pageRequests = @ + 1]

\* one call of the function under withRetry: await this.rateLimiter.wait on
\* the route of the channel, then channel.messages.fetch(fetchOptions)
fetchAttempt(f) == [f EXCEPT !.limiterWaits = @ + 1, !.pageRequests = @ + 1]

\* one call of the function under withRetry settles with a page
FetchPageServed ==
    /\ fs.pc = "page" /\ fs.retry.pc = "call"
    /\ LET messages == page(fetchCount(fs), fs.lastId)
           f == [fetchAttempt(fs) EXCEPT
                     !.pagesServed = @ \o messages,
                     !.pages = Append(@, [before |-> fs.lastId,
                                          requested |-> fetchCount(fs),
                                          items |-> messages])]
       IN fs' = fetchAfterRetry(f, retryOnSuccess(fs.retry, messages), messages)
    /\ UNCHANGED channelSize
    /\ UNCHANGED nonFetchVars

\* one call of the function under withRetry settles with an error
FetchPageFails(error, jitterAddend) ==
    /\ fs.pc = "page" /\ fs.retry.pc = "call"
    /\ LET f == [fetchAttempt(fs) EXCEPT
                     !.failedCalls = @ + 1,
                     !.fatalFailures = @ + (IF error.transientMessage THEN 0 ELSE 1)]
       IN fs' = fetchAfterRetry(f, retryOnFailure(fs.retry, error, jitterAddend), <<>>)
    /\ UNCHANGED channelSize
    /\ UNCHANGED nonFetchVars

\* withRetry's delay is over: the next attempt
FetchRetryDelayOver ==
    /\ fs.pc = "page" /\ fs.retry.pc = "sleep"
    /\ fs' = fetchAfterRetry(fs, retryAfterDelay(fs.retry), <<>>)
    /\ UNCHANGED channelSize
    /\ UNCHANGED nonFetchVars

FetchNext ==
    \/ \E limit \in (0..MaxLimit) \cup {Infinity}, before \in 0..channelSize,
          onProgress \in ProgressObservers :
          FetchMessages(limit, before, onProgress)
    \/ FetchPageServed
    \/ \E error \in FetchErrors, j \in JitterAddends(fetchRetryOptions.baseDelay) :
          FetchPageFails(error, j)
    \/ FetchRetryDelayOver

(***************************************************************************)
(* The composable guards (commands/decorators)                             *)
(***************************************************************************)
\* What a handler wrapped by the guards and the registry are both given: the
\* actor, what the handler does, and whether each response-channel call
\* succeeds.
Scenarios ==
    [user : UserIds, handlerReplies : BOOLEAN, handlerThrows : BOOLEAN,
     replyOk : BOOLEAN, deferReplyOk : BOOLEAN, editReplyOk : BOOLEAN]
NoScenario ==
    [user |-> "none", handlerReplies |-> FALSE, handlerThrows |-> FALSE,
     replyOk |-> TRUE, deferReplyOk |-> TRUE, editReplyOk |-> TRUE]

\* whether a call on the response channel succeeds
channelOk(call) ==
    IF call = "deferReply" THEN scenario.deferReplyOk
    ELSE IF call = "editReply" THEN scenario.editReplyOk
    ELSE scenario.replyOk

\* compose(...decorators): decorators.reduceRight((wrapped, decorator) =>
\* decorator(wrapped), handler).  A wrapped handler is the sequence of its
\* guards, outermost first.
RECURSIVE reduceRight(_, _)
reduceRight(decorators, wrapped) ==
    IF decorators = <<>> THEN wrapped
    ELSE reduceRight(SubSeq(decorators, 1, Len(decorators) - 1),
                     <<decorators[Len(decorators)]>> \o wrapped)
compose(decorators) == reduceRight(decorators, <<>>)

standardCommandWrapper == compose(<<"withErrorHandler", "withDefer", "withAuthorization">>)

NewWrapped ==
    [pc |-> "idle", layer |-> 0, deferred |-> FALSE, replied |-> FALSE, log |-> <<>>]

\* Control enters guard k of the wrapped handler (the handler itself past the
\* last guard) and runs up to the next await.
RECURSIVE enter(_, _)
enter(w, k) ==
    IF k > Len(standardCommandWrapper)
    THEN [w EXCEPT !.pc = "handler", !.layer = k, !.log = Append(@, "handler")]
    ELSE IF standardCommandWrapper[k] = "withErrorHandler"
    THEN enter(w, k + 1)
    ELSE IF standardCommandWrapper[k] = "withDefer"
    THEN [w EXCEPT !.pc = "deferReply", !.layer = k, !.log = Append(@, "deferReply")]
    ELSE IF ~isAuthorized(scenario.user)
    THEN [w EXCEPT !.pc = "reply_unauthorized", !.layer = k,
                   !.log = Append(@, "reply:unauthorized")]
    ELSE enter(w, k + 1)

\* An error leaves guard k (or the handler): the nearest withErrorHandler
\* around it reports it, and without one the call rejects.
throwFrom(w, k) ==
    LET handlers == {j \in 1..(k - 1) : j <= Len(standardCommandWrapper)
                                         /\ standardCommandWrapper[j] = "withErrorHandler"}
    IN IF handlers = {}
       THEN [w EXCEPT !.pc = "rejected"]
       ELSE LET j == CHOOSE h \in handlers : \A g \in handlers : g <= h
            IN [w EXCEPT !.pc = "report", !.layer = j,
                         !.log = Append(@, reportCall(w.deferred, w.replied))]

\* standardCommandWrapper(handler)(interaction), up to its first await
WrappedBegin ==
    /\ wr.pc = "idle"
    /\ wr' = enter(wr, 1)
    /\ UNCHANGED scenario
    /\ UNCHANGED nonWrapVars

\* withDefer: the awaited deferReply settles
WrappedDeferSettles ==
    /\ wr.pc = "deferReply"
    /\ wr' = IF channelOk("deferReply")
             THEN enter([wr EXCEPT !.deferred = TRUE], wr.layer + 1)
             ELSE throwFrom(wr, wr.layer)
    /\ UNCHANGED scenario
    /\ UNCHANGED nonWrapVars

\* withAuthorization: the awaited reply settles, AuthorizationError is thrown
WrappedAuthReplySettles ==
    /\ wr.pc = "reply_unauthorized"
    /\ wr' = IF channelOk("reply")
             THEN throwFrom([wr EXCEPT !.replied = TRUE], wr.layer)
             ELSE throwFrom(wr, wr.layer)
    /\ UNCHANGED scenario
    /\ UNCHANGED nonWrapVars

\* the awaited handler settles
WrappedHandlerSettles ==
    /\ wr.pc = "handler"
    /\ LET w == [wr EXCEPT !.replied = @ \/ scenario.handlerReplies]
       IN wr' = IF scenario.handlerThrows
                THEN throwFrom(w, wr.layer)
                ELSE [w EXCEPT !.pc = "returned"]
    /\ UNCHANGED scenario
    /\ UNCHANGED nonWrapVars

\* withErrorHandler: the awaited editReply / reply settles, its failure is
\* ignored, and the error is thrown again
WrappedReportSettles ==
    /\ wr.pc = "report"
    /\ wr' = throwFrom(wr, wr.layer)
    /\ UNCHANGED scenario
    /\ UNCHANGED nonWrapVars

\* registry.register(name, handler): the command with the default options
RegisteredWithDefaults ==
    [EmptyCommands EXCEPT !["purge"] =
        [handler |-> "h1", requiresAuth |-> registerDefault("default"),
         defer |-> registerDefault("default")]]

\* the call that the registry's catch block has under way
reportUnderWay(i) ==
    IF inv[i].log = <<>> THEN "none" ELSE inv[i].log[Len(inv[i].log)]

\* The registry and the wrapped handler are run on the same scenario.
WrapperNext ==
    \/ \E i \in Invocations : ExecuteBegin(i, "purge", scenario.user)
    \/ \E i \in Invocations : ExecuteRejectionSettles(i, channelOk("reply"))
    \/ \E i \in Invocations : ExecuteDeferSettles(i, channelOk("deferReply"))
    \/ \E i \in Invocations :
          ExecuteHandlerSettles(i, scenario.handlerReplies, scenario.handlerThrows)
    \/ \E i \in Invocations : ExecuteReportSettles(i, channelOk(reportUnderWay(i)))
    \/ WrappedBegin
    \/ WrappedDeferSettles
    \/ WrappedAuthReplySettles
    \/ WrappedHandlerSettles
    \/ WrappedReportSettles

(***************************************************************************)
(* DiscordService.fetchChannel, fetchUser, fetchUserSelf: validateId, then *)
(* withRetry around rateLimiter.wait and the client's fetch.  An id is the *)
(* sequence of its characters.                                             *)
(***************************************************************************)
Digits == {"0", "1", "2", "3", "4", "5", "6", "7", "8", "9"}
Repeat(c, n) == [k \in 1..n |-> c]

\* the ids the methods are called with: digits only, of several lengths, and
\* eighteen characters with one that is no ASCII digit
Ids ==
    << Repeat("7", 0), Repeat("7", 1), Repeat("7", 16), Repeat("7", 17),
       Repeat("7", 18), Repeat("7", 19), Repeat("7", 20),
       <<"a">> \o Repeat("7", 17), Repeat("7", 17) \o <<"a">>,
       Repeat("7", 9) \o <<" ">> \o Repeat("7", 8),
       <<"-">> \o Repeat("7", 17), Repeat("7", 17) \o <<"\n">>,
       Repeat("7", 17) \o <<".">>, <<"u", "n", "d", "e", "f", "i", "n", "e", "d">> >>

\* mutant: the pattern is not anchored at its end, /^\d{17,19}/
isValidDiscordIdUnanchored(id) ==
    /\ Len(id) >= 17
    /\ \A k \in 1..17 : id[k] \in Digits

\* isValidDiscordId(id): /^\d{17,19}$/.test(id)
isValidDiscordId(id) ==
    /\ Len(id) \in 17..19
    /\ \A k \in 1..Len(id) : id[k] \in Digits

validateDiscordId(id) == isValidDiscordId(id)

ServiceMethods == {"fetchChannel", "fetchUser", "fetchUserSelf"}
ValidationError ==
    [class |-> "ValidationError", status |-> 0, transientMessage |-> FALSE,
     retryAfter |-> 0]
\* { context: `fetching channel ${channelId}` } over DEFAULT_OPTIONS
serviceRetryOptions == [DEFAULT_OPTIONS EXCEPT !.context = "fetching"]

NoService ==
    [pc |-> "idle", method |-> "none", id |-> <<>>, retry |-> NewRetry,
     waits |-> 0, clientCalls |-> 0, thrown |-> NoError]

\* the function given to withRetry is called: await this.rateLimiter.wait(...)
serviceAttempt(s, r) ==
    IF r.pc = "call" THEN [s EXCEPT !.pc = "wait", !.retry = r, !.waits = @ + 1]
    ELSE IF r.pc = "sleep" THEN [s EXCEPT !.pc = "sleep", !.retry = r]
    ELSE IF r.pc = "returned" THEN [s EXCEPT !.pc = "returned", !.retry = r]
    ELSE [s EXCEPT !.pc = "rejected", !.retry = r, !.thrown = r.thrown]

\* fetchChannel(id) / fetchUser(id) / fetchUserSelf(id), to the first await
ServiceFetch(method, id) ==
    /\ svc.pc = "idle"
    /\ svc' = IF ~validateDiscordId(id)
              THEN [svc EXCEPT !.pc = "rejected", !.method = method, !.id = id,
                               !.thrown = ValidationError]
              ELSE serviceAttempt([svc EXCEPT !.method = method, !.id = id],
                                  retryBegin(serviceRetryOptions))
    /\ UNCHANGED nonSvcVars

\* rateLimiter.wait has returned: the client's fetch is called
ServiceWaitReturns ==
    /\ svc.pc = "wait"
    /\ svc' = [svc EXCEPT !.pc = "client", !.clientCalls = @ + 1]
    /\ UNCHANGED nonSvcVars

\* the client's fetch resolves
ServiceClientResolves ==
    /\ svc.pc = "client"
    /\ svc' = serviceAttempt(svc, retryOnSuccess(svc.retry, SuccessValue))
    /\ UNCHANGED nonSvcVars

\* the client's fetch rejects: withRetry's catch block
ServiceClientRejects(error, jitterAddend) ==
    /\ svc.pc = "client"
    /\ svc' = serviceAttempt(svc, retryOnFailure(svc.retry, error, jitterAddend))
    /\ UNCHANGED nonSvcVars

\* withRetry's delay is over: the next attempt
ServiceDelayOver ==
    /\ svc.pc = "sleep"
    /\ svc' = serviceAttempt(svc, retryAfterDelay(svc.retry))
    /\ UNCHANGED nonSvcVars

ServiceNext ==
    \/ \E method \in ServiceMethods, n \in 1..Len(Ids) : ServiceFetch(method, Ids[n])
    \/ ServiceWaitReturns
    \/ ServiceClientResolves
    \/ \E error \in FetchErrors, j \in JitterAddends(serviceRetryOptions.baseDelay) :
          ServiceClientRejects(error, j)
    \/ ServiceDelayOver

(***************************************************************************)
(* The bulk handlers (commands/handlers): cleaner-selfpurge deletes the    *)
(* user's own messages, nuke-channels deletes the channels of a guild,     *)
(* cleaner-bulk closes the DM channels and then rejects the pending friend *)
(* requests.  Each loop awaits one mutating call per item inside try/catch *)
(* and is followed by an awaited report on the interaction.                *)
(***************************************************************************)
BulkHandlers == {"cleaner-selfpurge", "nuke-channels", "cleaner-bulk"}

\* the item counts of a handler's loops: myMessages (not empty, the handler
\* returns earlier otherwise), channels, or dmChannels and requests
BulkItems(handler) ==
    IF handler = "cleaner-selfpurge" THEN {<<n>> : n \in 1..MaxItems}
    ELSE IF handler = "nuke-channels" THEN {<<n>> : n \in 0..MaxItems}
    ELSE {<<n, m>> : n \in 0..MaxItems, m \in 0..MaxItems}

NewBulk(handler, items) ==
    [handler |-> handler, items |-> items, pc |-> "start", loop |-> 1, i |-> 0,
     deleteCount |-> [l \in 1..Len(items) |-> 0],
     errorCount |-> [l \in 1..Len(items) |-> 0],
     attempts |-> [l \in 1..Len(items) |-> [k \in 1..items[l] |-> 0]],
     reports |-> <<>>, escaped |-> "none"]
NoBulk == NewBulk("nuke-channels", <<0>>)

\* for (const item of items): the loop is entered, or skipped when empty, in
\* which case the report that follows it is called at once
enterLoop(b, l) ==
    [b EXCEPT !.loop = l, !.i = 0, !.pc = IF b.items[l] = 0 THEN "report" ELSE "loop"]

\* the handler is called: cleaner-bulk first awaits a warning followUp
BulkBegin ==
    /\ bulk.pc = "start"
    /\ bulk' = IF bulk.handler = "cleaner-bulk"
               THEN [bulk EXCEPT !.pc = "warning"]
               ELSE enterLoop(bulk, 1)
    /\ UNCHANGED nonBulkVars

\* the awaited warning followUp of cleaner-bulk settles
BulkWarningSettles(ok) ==
    /\ bulk.pc = "warning"
    /\ bulk' = IF ok THEN enterLoop(bulk, 1)
               ELSE [bulk EXCEPT !.pc = "rejected", !.escaped = "warning"]
    /\ UNCHANGED nonBulkVars

\* mutant: the failure of an item's call ends the handler
BulkItemSettlesEscaping(ok) ==
    /\ bulk.pc = "loop"
    /\ LET l == bulk.loop
           k == bulk.i + 1
           counted == [bulk EXCEPT !.attempts[l][k] = @ + 1, !.i = k,
                                   !.deleteCount[l] = @ + 1]
       IN bulk' = IF ~ok THEN [bulk EXCEPT !.attempts[l][k] = @ + 1,
                                           !.pc = "rejected", !.escaped = "item"]
                  ELSE IF k = bulk.items[l] THEN [counted EXCEPT !.pc = "report"]
                  ELSE counted
    /\ UNCHANGED nonBulkVars

\* the awaited deleteMessage / deleteChannel / rejectFriendRequest of the
\* next item settles: count++ or, in the catch, errors++; after the last
\* item the report that follows the loop is called
BulkItemSettles(ok) ==
    /\ bulk.pc = "loop"
    /\ LET l == bulk.loop
           k == bulk.i + 1
           counted == IF ok
                      THEN [bulk EXCEPT !.attempts[l][k] = @ + 1, !.i = k,
                                        !.deleteCount[l] = @ + 1]
                      ELSE [bulk EXCEPT !.attempts[l][k] = @ + 1, !.i = k,
                                        !.errorCount[l] = @ + 1]
       IN bulk' = IF k = bulk.items[l] THEN [counted EXCEPT !.pc = "report"]
                  ELSE counted
    /\ UNCHANGED nonBulkVars

\* the awaited report after a loop settles: the followUp of cleaner-bulk
\* (count and errors of that loop) or the editReply of the other handlers
\* (deleted and errors); a failed report rejects the handler
BulkReportSettles(ok) ==
    /\ bulk.pc = "report"
    /\ LET l == bulk.loop
           reported == [bulk EXCEPT !.reports = Append(@,
                           [call |-> IF bulk.handler = "cleaner-bulk"
                                     THEN "followUp" ELSE "editReply",
                            loop |-> l, count |-> bulk.deleteCount[l],
                            errors |-> bulk.errorCount[l]])]
       IN bulk' = IF ~ok THEN [bulk EXCEPT !.pc = "rejected", !.escaped = "report"]
                  ELSE IF bulk.handler # "cleaner-bulk"
                       THEN [reported EXCEPT !.pc = "returned"]
                  ELSE IF l < Len(bulk.items) THEN enterLoop(reported, l + 1)
                  ELSE [reported EXCEPT !.pc = "summary"]
    /\ UNCHANGED nonBulkVars

\* the awaited last editReply of cleaner-bulk settles: both counts, no errors
BulkSummarySettles(ok) ==
    /\ bulk.pc = "summary"
    /\ bulk' = IF ok
               THEN [bulk EXCEPT !.pc = "returned",
                                 !.reports = Append(@,
                                     [call |-> "editReply", loop |-> 0,
                                      count |-> bulk.deleteCount[1] + bulk.deleteCount[2],
                                      errors |-> 0])]
               ELSE [bulk EXCEPT !.pc = "rejected", !.escaped = "summary"]
    /\ UNCHANGED nonBulkVars

BulkNext ==
    \/ BulkBegin
    \/ \E ok \in BOOLEAN : BulkWarningSettles(ok)
    \/ \E ok \in BOOLEAN : BulkItemSettles(ok)
    \/ \E ok \in BOOLEAN : BulkReportSettles(ok)
    \/ \E ok \in BOOLEAN : BulkSummarySettles(ok)

(***************************************************************************)
(* utils/file: ensureDir and safeWriteFile.  The file system is followed   *)
(* along one path of Depth components: level k is the path made of the     *)
(* first k components, the file written is at level Depth and its          *)
(* directory (path.dirname) at level Depth - 1.                            *)
(***************************************************************************)
Levels == 1..Depth
Contents == {"old", "new"}
Absent == [kind |-> "absent", content |-> "none"]
Directory == [kind |-> "dir", content |-> "none"]
File(content) == [kind |-> "file", content |-> content]
EmptyDisk == [entries |-> [k \in Levels |-> Absent], denied |-> 0]

\* the states of the path: an entry exists only inside a directory; `denied`
\* is the level at which the process may not create or write (0: none)
Disks ==
    {d \in [entries : [Levels -> {Absent, Directory} \cup {File(c) : c \in Contents}],
            denied : 0..Depth] :
        \A k \in Levels : k > 1 /\ d.entries[k] # Absent => d.entries[k - 1] = Directory}

\* fs.mkdir(level k, { recursive: true }): the first level from the root that
\* stops it, and the error it raises there (0: none)
mkdirStop(d, k) ==
    LET stops == {j \in 1..k : d.entries[j].kind = "file"
                                \/ (d.entries[j] = Absent /\ d.denied = j)}
    IN IF stops = {} THEN 0 ELSE CHOOSE j \in stops : \A i \in stops : j <= i
mkdirError(d, k) ==
    LET j == mkdirStop(d, k)
    IN IF j = 0 THEN "none"
       ELSE IF d.entries[j].kind = "file" THEN (IF j = k THEN "EEXIST" ELSE "ENOTDIR")
       ELSE "EACCES"
\* mutant: mkdir without recursive creates the last level only
mkdirNotRecursive(d, k) ==
    IF k = 0 \/ mkdirStop(d, k) # 0 \/ (k > 1 /\ d.entries[k - 1] # Directory) THEN d
    ELSE [d EXCEPT !.entries[k] = Directory]
\* the path after fs.mkdir: the levels above the stop are directories
mkdir(d, k) ==
    LET upTo == IF mkdirStop(d, k) = 0 THEN k ELSE mkdirStop(d, k) - 1
    IN [d EXCEPT !.entries = [j \in Levels |-> IF j <= upTo THEN Directory ELSE @[j]]]

\* fs.writeFile(level k, content)
writeFileError(d, k) ==
    IF k > 1 /\ d.entries[k - 1] = Absent THEN "ENOENT"
    ELSE IF k > 1 /\ d.entries[k - 1].kind = "file" THEN "ENOTDIR"
    ELSE IF d.entries[k].kind = "dir" THEN "EISDIR"
    ELSE IF d.denied = k THEN "EACCES"
    ELSE "none"
writeFile(d, k, content) ==
    IF writeFileError(d, k) = "none" THEN [d EXCEPT !.entries[k] = File(content)] ELSE d

NoIo == [pc |-> "idle", op |-> "none", level |-> 0, content |-> "none",
         before |-> EmptyDisk, errors |-> <<>>, result |-> "none"]

\* ensureDir(dirPath) called on its own: await fs.mkdir(dirPath, { recursive })
EnsureDir(k) ==
    /\ io.pc = "idle"
    /\ io' = [io EXCEPT !.pc = "mkdir", !.op = "ensureDir", !.level = k, !.before = disk]
    /\ UNCHANGED disk
    /\ UNCHANGED nonFileVars

\* safeWriteFile(filePath, content), to the await of mkdir in ensureDir
SafeWriteFile(content) ==
    /\ io.pc = "idle"
    /\ io' = [io EXCEPT !.pc = "mkdir", !.op = "safeWriteFile", !.level = Depth - 1,
                        !.content = content, !.before = disk]
    /\ UNCHANGED disk
    /\ UNCHANGED nonFileVars

\* the awaited fs.mkdir settles: ensureDir swallows EEXIST and rethrows the
\* rest; safeWriteFile goes on to fs.writeFile or, in its catch, returns false
MkdirSettles ==
    /\ io.pc = "mkdir"
    /\ disk' = mkdir(disk, io.level)
    /\ LET error == mkdirError(disk, io.level)
           seen == IF error = "none" THEN io.errors ELSE Append(io.errors, error)
           rethrown == error \notin {"none", "EEXIST"}
       IN io' = IF io.op = "ensureDir"
                THEN [io EXCEPT !.errors = seen,
                                !.pc = IF rethrown THEN "threw" ELSE "returned"]
                ELSE IF rethrown
                THEN [io EXCEPT !.errors = seen, !.pc = "returned", !.result = "false"]
                ELSE [io EXCEPT !.errors = seen, !.pc = "write"]
    /\ UNCHANGED nonFileVars

\* the awaited fs.writeFile settles: return true, or false from the catch
WriteFileSettles ==
    /\ io.pc = "write"
    /\ disk' = writeFile(disk, Depth, io.content)
    /\ LET error == writeFileError(disk, Depth)
       IN io' = IF error = "none"
                THEN [io EXCEPT !.pc = "returned", !.result = "true"]
                ELSE [io EXCEPT !.pc = "returned", !.result = "false",
                                !.errors = Append(@, error)]
    /\ UNCHANGED nonFileVars

FileNext ==
    \/ \E k \in 0..Depth : EnsureDir(k)
    \/ \E content \in Contents : SafeWriteFile(content)
    \/ MkdirSettles
    \/ WriteFileSettles

(***************************************************************************)
(* Dispatch of an interaction while the DiscordService may not exist yet   *)
(* (orchestrator, services/discord).  Every handler but handleHelp begins  *)
(* with getDiscordService(); "h1" stands for those and "h2" for handleHelp.*)
(***************************************************************************)
ServiceHandlers == {"h1"}

NoDispatch == [atDispatch |-> "none", atInvoke |-> "none", apiCalls |-> 0]
NoDispatches == [i \in Invocations |-> NoDispatch]

\* the calls of the DiscordService a handler makes before it settles
ApiCallCounts == 0..2

\* mutant: the instance is handed out without the test
getDiscordServiceUnchecked(instance) == "returns"

\* getDiscordService(): throws Error('Discord service not initialized...')
\* while the instance is null
getDiscordService(instance) == IF instance = "null" THEN "throws" ELSE "returns"

\* _registerCommands(): register(name, handler) with the default options
registeredByOrchestrator(h) ==
    [name \in CommandNames |->
        [handler |-> h, requiresAuth |-> registerDefault("default"),
         defer |-> registerDefault("default")]]

\* the self-bot's 'ready' event, _onSelfBotReady to its first await:
\* this.discordService = initDiscordService(...)
OnSelfBotReady ==
    /\ discordServiceInstance = "null"
    /\ discordServiceInstance' = "instance"
    /\ UNCHANGED dispatch
    /\ UNCHANGED nonDispatchVars

\* the command bot's 'interactionCreate' event: _handleInteraction awaits
\* commandRegistry.execute(interaction.commandName, interaction)
HandleInteraction(i, name, userId) ==
    /\ executeBegin(i, name, userId)
    /\ dispatch' = [dispatch EXCEPT ![i] =
           [@ EXCEPT !.atDispatch = discordServiceInstance,
                     !.atInvoke = IF executeBranch(name, userId) = "handler"
                                  THEN discordServiceInstance ELSE @]]
    /\ UNCHANGED discordServiceInstance
    /\ UNCHANGED nonRegDispatchVars

\* deferReply settles; on success handler(interaction) is called, and its
\* first statement is getDiscordService()
DispatchDeferSettles(i, ok) ==
    /\ executeDeferSettles(i, ok)
    /\ dispatch' = [dispatch EXCEPT ![i].atInvoke =
                       IF ok THEN discordServiceInstance ELSE @]
    /\ UNCHANGED discordServiceInstance
    /\ UNCHANGED nonRegDispatchVars

\* the handler settles: a handler whose getDiscordService() threw has
\* thrown that error before any call; any other has made its calls and
\* returns or throws
DispatchHandlerSettles(i, handlerReplied, throws, calls) ==
    /\ inv[i].handler \in ServiceHandlers
           /\ getDiscordService(dispatch[i].atInvoke) = "throws"
         => throws /\ ~handlerReplied /\ calls = 0
    /\ inv[i].handler \notin ServiceHandlers => calls = 0
    /\ executeHandlerSettles(i, handlerReplied, throws)
    /\ dispatch' = [dispatch EXCEPT ![i].apiCalls = @ + calls]
    /\ UNCHANGED discordServiceInstance
    /\ UNCHANGED nonRegDispatchVars

DispatchNext ==
    \/ OnSelfBotReady
    \/ \E i \in Invocations, name \in CommandNames \cup {"nope"}, u \in UserIds :
          HandleInteraction(i, name, u)
    \/ \E i \in Invocations, ok \in BOOLEAN : ExecuteRejectionSettles(i, ok)
    \/ \E i \in Invocations, ok \in BOOLEAN : DispatchDeferSettles(i, ok)
    \/ \E i \in Invocations, r, t \in BOOLEAN, calls \in ApiCallCounts :
          DispatchHandlerSettles(i, r, t, calls)
    \/ \E i \in Invocations, ok \in BOOLEAN : ExecuteReportSettles(i, ok)

(***************************************************************************)
(* handleNukeChannels and handleNukeServer (commands/handlers)             *)
(***************************************************************************)
NukeHandlers == {"nuke-channels", "nuke-server"}
GuildIds == {Ids[k] : k \in 1..Len(Ids)}
selfUserId == "self"
OwnerIds == {"self", "other"}

\* selfBotClient.guilds.cache.get(guildId): the guild under that id (its
\* ownerId and the number of its channels), or none; the keys of the cache
\* are the ids Discord gave
NoGuild == [present |-> FALSE, ownerId |-> "none", channels |-> 0]
CachedGuilds(guildId) ==
    {NoGuild} \cup
    (IF isValidDiscordId(guildId)
     THEN [present : {TRUE}, ownerId : OwnerIds, channels : 0..MaxItems]
     ELSE {})

NoNuke ==
    [pc |-> "idle", handler |-> "none", guildId |-> <<>>, guild |-> NoGuild,
     guard |-> "none", deleteCalls |-> 0, deleted |-> 0, errors |-> 0,
     responses |-> <<>>, thrown |-> NoError]

\* mutant: the ownership of the guild is not verified
nukeGuardNoOwnership(guildId, guild) ==
    IF ~validateDiscordId(guildId) THEN "ValidationError"
    ELSE IF ~guild.present THEN "not found"
    ELSE "proceed"

\* the tests both handlers make before they delete: validateId, the cache
\* lookup, guild.ownerId !== selfUserId
nukeGuard(guildId, guild) ==
    IF ~validateDiscordId(guildId) THEN "ValidationError"
    ELSE IF ~guild.present THEN "not found"
    ELSE IF guild.ownerId # selfUserId THEN "not owned"
    ELSE "proceed"

\* what is deleted one call at a time: the guild, or each of its channels
nukeTargets(n) == IF n.handler = "nuke-server" THEN 1 ELSE n.guild.channels

\* the handler is called, up to its first await
HandleNuke(handler, guildId, guild) ==
    /\ nuke.pc = "idle"
    /\ LET guard == nukeGuard(guildId, guild)
           n == [nuke EXCEPT !.handler = handler, !.guildId = guildId,
                             !.guild = guild, !.guard = guard]
       IN nuke' =
            IF guard = "ValidationError"
            THEN [n EXCEPT !.pc = "threw", !.thrown = ValidationError]
            ELSE IF guard # "proceed"
            THEN [n EXCEPT !.pc = "respond", !.responses = Append(@, guard)]
            ELSE IF nukeTargets(n) = 0
            THEN [n EXCEPT !.pc = "report", !.responses = Append(@, "complete")]
            ELSE [n EXCEPT !.pc = "delete", !.deleteCalls = 1]
    /\ UNCHANGED nonNukeVars

\* the awaited editReply of a refusal settles: return
NukeRefusalSettles(ok) ==
    /\ nuke.pc = "respond"
    /\ nuke' = IF ok THEN [nuke EXCEPT !.pc = "returned"]
               ELSE [nuke EXCEPT !.pc = "threw", !.thrown = CHOOSE e \in ErrorValues :
                                                                e.status = 403]
    /\ UNCHANGED nonNukeVars

\* the awaited deleteChannel / deleteGuild settles: the next channel is
\* deleted, or the outcome is reported by editReply (the failure of
\* deleteGuild from its catch block)
NukeDeleteSettles(ok) ==
    /\ nuke.pc = "delete"
    /\ LET counted == IF ok THEN [nuke EXCEPT !.deleted = @ + 1]
                      ELSE [nuke EXCEPT !.errors = @ + 1]
       IN nuke' =
            IF nuke.deleteCalls < nukeTargets(nuke)
            THEN [counted EXCEPT !.deleteCalls = @ + 1]
            ELSE [counted EXCEPT !.pc = "report",
                                 !.responses = Append(@,
                                     IF nuke.handler = "nuke-server" /\ ~ok
                                     THEN "failed" ELSE "complete")]
    /\ UNCHANGED nonNukeVars

\* the awaited last editReply settles
NukeReportSettles(ok) ==
    /\ nuke.pc = "report"
    /\ nuke' = IF ok THEN [nuke EXCEPT !.pc = "returned"]
               ELSE [nuke EXCEPT !.pc = "threw", !.thrown = CHOOSE e \in ErrorValues :
                                                                e.status = 403]
    /\ UNCHANGED nonNukeVars

NukeNext ==
    \/ \E handler \in NukeHandlers, guildId \in GuildIds :
          \E guild \in CachedGuilds(guildId) : HandleNuke(handler, guildId, guild)
    \/ \E ok \in BOOLEAN : NukeRefusalSettles(ok)
    \/ \E ok \in BOOLEAN : NukeDeleteSettles(ok)
    \/ \E ok \in BOOLEAN : NukeReportSettles(ok)

(***************************************************************************)
(* Orchestrator: shutdown, client errors and the self-bot's re-login       *)
(***************************************************************************)
ShutdownTriggers == {"SIGINT", "SIGTERM", "uncaughtException"}
ErrorSources == {"SELF-BOT", "COMMAND-BOT"}

\* new Orchestrator() and start() up to the await of the two logins.
\* selfBot: what the self-bot client is doing; start: the initial logins;
\* pendingDestroys: destroy() promises of _handleClientError not yet
\* settled; relogin: where _retryLogin stands; shutdownsAwaiting: shutdown
\* bodies awaiting the two destroy(); the rest records what has happened
NewOrchestrator ==
    [isShuttingDown |-> FALSE, isSelfBotLoggingIn |-> FALSE, exited |-> FALSE,
     selfBot |-> "connecting", start |-> "connecting",
     pendingDestroys |-> 0, relogin |-> "idle", shutdownsAwaiting |-> 0,
     shutdownBodies |-> 0, exitCalls |-> 0, triggers |-> 0, errors |-> 0,
     attempts |-> 0, attemptsInFlight |-> 0, needsLogin |-> FALSE]

\* mutant: shutdown without its isShuttingDown test
shutdownUnguarded(o) ==
    [o EXCEPT !.isShuttingDown = TRUE, !.selfBot = "destroyed",
              !.shutdownBodies = @ + 1, !.shutdownsAwaiting = @ + 1]

\* shutdown(exitCode) up to its await: returns at once when shutting down,
\* else sets the flag and calls destroy() on both clients
shutdown(o) ==
    IF o.isShuttingDown THEN o
    ELSE [o EXCEPT !.isShuttingDown = TRUE, !.selfBot = "destroyed",
                   !.shutdownBodies = @ + 1, !.shutdownsAwaiting = @ + 1]

\* _retryLogin() up to its await of delay(5000)
retryLogin(o) ==
    IF o.isSelfBotLoggingIn \/ o.isShuttingDown THEN o
    ELSE [o EXCEPT !.isSelfBotLoggingIn = TRUE, !.relogin = "delay",
                   !.attempts = @ + 1, !.attemptsInFlight = @ + 1]

\* _handleClientError(error, source); recoverable: the message includes
\* 'Invalid Session' or 'Not logged in'
handleClientError(o, source, recoverable) ==
    IF o.isShuttingDown THEN o
    ELSE IF source = "SELF-BOT" /\ recoverable
    THEN [o EXCEPT !.selfBot = "destroyed", !.pendingDestroys = @ + 1,
                   !.needsLogin = TRUE]
    ELSE o

\* SIGINT, SIGTERM or an uncaught exception: shutdown(0) or shutdown(1)
ProcessSignal(trigger) ==
    /\ ~orch.exited /\ orch.triggers < MaxTriggers
    /\ orch' = shutdown([orch EXCEPT !.triggers = @ + 1])
    /\ UNCHANGED nonOrchVars

\* start(): the awaited Promise.all of the two logins settles; on failure
\* shutdown(1) is called from the catch
StartLoginSettles(ok) ==
    /\ ~orch.exited /\ orch.start = "connecting"
    /\ orch' = IF ok
               THEN [orch EXCEPT !.start = "done",
                                 !.selfBot = IF @ = "connecting" THEN "connected" ELSE @]
               ELSE shutdown([orch EXCEPT !.start = "done"])
    /\ UNCHANGED nonOrchVars

\* a client emits 'error' (the self-bot's only while it is connecting or
\* connected)
ClientError(source, recoverable) ==
    /\ ~orch.exited /\ orch.errors < MaxSessionErrors
    /\ source = "SELF-BOT" => orch.selfBot # "destroyed"
    /\ orch' = handleClientError([orch EXCEPT !.errors = @ + 1], source, recoverable)
    /\ UNCHANGED nonOrchVars

\* selfBotClient.destroy() of _handleClientError resolves: then(_retryLogin)
DestroySettles ==
    /\ ~orch.exited /\ orch.pendingDestroys > 0
    /\ orch' = retryLogin([orch EXCEPT !.pendingDestroys = @ - 1])
    /\ UNCHANGED nonOrchVars

\* delay(5000) of _retryLogin is over: selfBotClient.login is called
ReloginDelayOver ==
    /\ ~orch.exited /\ orch.relogin = "delay"
    /\ orch' = [orch EXCEPT !.relogin = "login", !.selfBot = "connecting",
                            !.needsLogin = FALSE]
    /\ UNCHANGED nonOrchVars

\* the awaited login settles: on success the finally block clears the flag,
\* on failure the catch block logs and awaits logger.toFile
ReloginLoginSettles(ok) ==
    /\ ~orch.exited /\ orch.relogin = "login"
    /\ orch' = IF ok
               THEN [orch EXCEPT !.relogin = "idle", !.isSelfBotLoggingIn = FALSE,
                                 !.attemptsInFlight = @ - 1,
                                 !.selfBot = IF @ = "connecting" THEN "connected" ELSE @]
               ELSE [orch EXCEPT !.relogin = "log"]
    /\ UNCHANGED nonOrchVars

\* logger.toFile settles: await this.shutdown(1); when shutdown returns at
\* once the finally block clears the flag, else the process is on its way out
ReloginFailureLogged ==
    /\ ~orch.exited /\ orch.relogin = "log"
    /\ orch' = IF shutdown(orch) = orch
               THEN [orch EXCEPT !.relogin = "idle", !.isSelfBotLoggingIn = FALSE,
                                 !.attemptsInFlight = @ - 1]
               ELSE [shutdown(orch) EXCEPT !.relogin = "shutdown"]
    /\ UNCHANGED nonOrchVars

\* Promise.allSettled of the two destroy() settles: process.exit(exitCode)
ShutdownDestroySettles ==
    /\ ~orch.exited /\ orch.shutdownsAwaiting > 0
    /\ orch' = [orch EXCEPT !.shutdownsAwaiting = @ - 1, !.exited = TRUE,
                            !.exitCalls = @ + 1]
    /\ UNCHANGED nonOrchVars

OrchestratorNext ==
    \/ \E trigger \in ShutdownTriggers : ProcessSignal(trigger)
    \/ \E ok \in BOOLEAN : StartLoginSettles(ok)
    \/ \E source \in ErrorSources, recoverable \in BOOLEAN : ClientError(source, recoverable)
    \/ DestroySettles
    \/ ReloginDelayOver
    \/ \E ok \in BOOLEAN : ReloginLoginSettles(ok)
    \/ ReloginFailureLogged
    \/ ShutdownDestroySettles

\* every awaited promise settles
OrchestratorFairness ==
    /\ WF_vars(\E ok \in BOOLEAN : StartLoginSettles(ok))
    /\ WF_vars(DestroySettles)
    /\ WF_vars(ReloginDelayOver)
    /\ WF_vars(\E ok \in BOOLEAN : ReloginLoginSettles(ok))
    /\ WF_vars(ReloginFailureLogged)
    /\ WF_vars(ShutdownDestroySettles)

(***************************************************************************)
(* Specifications: each drives one component and leaves the others as      *)
(* constructed.                                                            *)
(***************************************************************************)
Init ==
    /\ commands = EmptyCommands
    /\ inv = NoInvocations
    /\ registered = 0
    /\ now = 0
    /\ limits = DefaultLimits
    /\ globalBucket = TokenBucket(limits.globalLimit, limits.globalLimit, 0)
    /\ routeBuckets = NoRouteBuckets
    /\ waiter = NoWaiters
    /\ passes = NoPasses
    /\ script = <<>>
    /\ rt = NewRetry
    /\ channelSize = 0
    /\ fs = NewFetch
    /\ scenario = NoScenario
    /\ wr = NewWrapped
    /\ thrown = NoThrown
    /\ verdict = "none"
    /\ tokenBucket = NoBucket
    /\ clock = 0
    /\ lastCall = NoCall
    /\ probe = NoProbe
    /\ executing = NoExecutions
    /\ bulk = NoBulk
    /\ svc = NoService
    /\ lastRegistered = NoRegistrations
    /\ disk = EmptyDisk
    /\ io = NoIo
    /\ discordServiceInstance = "null"
    /\ dispatch = NoDispatches
    /\ nuke = NoNuke
    /\ orch = NewOrchestrator

Next == RegNext
Spec == Init /\ [][Next]_vars

OverwriteInit ==
    /\ commands = EmptyCommands
    /\ inv = NoInvocations
    /\ registered = 0
    /\ now = 0
    /\ limits = DefaultLimits
    /\ globalBucket = TokenBucket(limits.globalLimit, limits.globalLimit, 0)
    /\ routeBuckets = NoRouteBuckets
    /\ waiter = NoWaiters
    /\ passes = NoPasses
    /\ script = <<>>
    /\ rt = NewRetry
    /\ channelSize = 0
    /\ fs = NewFetch
    /\ scenario = NoScenario
    /\ wr = NewWrapped
    /\ thrown = NoThrown
    /\ verdict = "none"
    /\ tokenBucket = NoBucket
    /\ clock = 0
    /\ lastCall = NoCall
    /\ probe = NoProbe
    /\ executing = NoExecutions
    /\ bulk = NoBulk
    /\ svc = NoService
    /\ lastRegistered = NoRegistrations
    /\ disk = EmptyDisk
    /\ io = NoIo
    /\ discordServiceInstance = "null"
    /\ dispatch = NoDispatches
    /\ nuke = NoNuke
    /\ orch = NewOrchestrator

OverwriteSpec == OverwriteInit /\ [][OverwriteNext]_vars

FileInit ==
    /\ commands = EmptyCommands
    /\ inv = NoInvocations
    /\ registered = 0
    /\ now = 0
    /\ limits = DefaultLimits
    /\ globalBucket = TokenBucket(limits.globalLimit, limits.globalLimit, 0)
    /\ routeBuckets = NoRouteBuckets
    /\ waiter = NoWaiters
    /\ passes = NoPasses
    /\ script = <<>>
    /\ rt = NewRetry
    /\ channelSize = 0
    /\ fs = NewFetch
    /\ scenario = NoScenario
    /\ wr = NewWrapped
    /\ thrown = NoThrown
    /\ verdict = "none"
    /\ tokenBucket = NoBucket
    /\ clock = 0
    /\ lastCall = NoCall
    /\ probe = NoProbe
    /\ executing = NoExecutions
    /\ bulk = NoBulk
    /\ svc = NoService
    /\ lastRegistered = NoRegistrations
    /\ disk \in Disks
    /\ io = NoIo
    /\ discordServiceInstance = "null"
    /\ dispatch = NoDispatches
    /\ nuke = NoNuke
    /\ orch = NewOrchestrator

FileSpec == FileInit /\ [][FileNext]_vars

DispatchInit ==
    /\ \E h \in HandlerIds : commands = registeredByOrchestrator(h)
    /\ inv = NoInvocations
    /\ registered = Cardinality(CommandNames)
    /\ now = 0
    /\ limits = DefaultLimits
    /\ globalBucket = TokenBucket(limits.globalLimit, limits.globalLimit, 0)
    /\ routeBuckets = NoRouteBuckets
    /\ waiter = NoWaiters
    /\ passes = NoPasses
    /\ script = <<>>
    /\ rt = NewRetry
    /\ channelSize = 0
    /\ fs = NewFetch
    /\ scenario = NoScenario
    /\ wr = NewWrapped
    /\ thrown = NoThrown
    /\ verdict = "none"
    /\ tokenBucket = NoBucket
    /\ clock = 0
    /\ lastCall = NoCall
    /\ probe = NoProbe
    /\ executing = NoExecutions
    /\ bulk = NoBulk
    /\ svc = NoService
    /\ lastRegistered = NoRegistrations
    /\ disk = EmptyDisk
    /\ io = NoIo
    /\ discordServiceInstance = "null"
    /\ dispatch = NoDispatches
    /\ nuke = NoNuke
    /\ orch = NewOrchestrator

DispatchSpec == DispatchInit /\ [][DispatchNext]_vars

NukeInit ==
    /\ commands = EmptyCommands
    /\ inv = NoInvocations
    /\ registered = 0
    /\ now = 0
    /\ limits = DefaultLimits
    /\ globalBucket = TokenBucket(limits.globalLimit, limits.globalLimit, 0)
    /\ routeBuckets = NoRouteBuckets
    /\ waiter = NoWaiters
    /\ passes = NoPasses
    /\ script = <<>>
    /\ rt = NewRetry
    /\ channelSize = 0
    /\ fs = NewFetch
    /\ scenario = NoScenario
    /\ wr = NewWrapped
    /\ thrown = NoThrown
    /\ verdict = "none"
    /\ tokenBucket = NoBucket
    /\ clock = 0
    /\ lastCall = NoCall
    /\ probe = NoProbe
    /\ executing = NoExecutions
    /\ bulk = NoBulk
    /\ svc = NoService
    /\ lastRegistered = NoRegistrations
    /\ disk = EmptyDisk
    /\ io = NoIo
    /\ discordServiceInstance = "null"
    /\ dispatch = NoDispatches
    /\ nuke = NoNuke
    /\ orch = NewOrchestrator

NukeSpec == NukeInit /\ [][NukeNext]_vars

OrchestratorInit ==
    /\ commands = EmptyCommands
    /\ inv = NoInvocations
    /\ registered = 0
    /\ now = 0
    /\ limits = DefaultLimits
    /\ globalBucket = TokenBucket(limits.globalLimit, limits.globalLimit, 0)
    /\ routeBuckets = NoRouteBuckets
    /\ waiter = NoWaiters
    /\ passes = NoPasses
    /\ script = <<>>
    /\ rt = NewRetry
    /\ channelSize = 0
    /\ fs = NewFetch
    /\ scenario = NoScenario
    /\ wr = NewWrapped
    /\ thrown = NoThrown
    /\ verdict = "none"
    /\ tokenBucket = NoBucket
    /\ clock = 0
    /\ lastCall = NoCall
    /\ probe = NoProbe
    /\ executing = NoExecutions
    /\ bulk = NoBulk
    /\ svc = NoService
    /\ lastRegistered = NoRegistrations
    /\ disk = EmptyDisk
    /\ io = NoIo
    /\ discordServiceInstance = "null"
    /\ dispatch = NoDispatches
    /\ nuke = NoNuke
    /\ orch = NewOrchestrator

OrchestratorSpec == OrchestratorInit /\ [][OrchestratorNext]_vars /\ OrchestratorFairness

LimiterInit ==
    /\ commands = EmptyCommands
    /\ inv = NoInvocations
    /\ registered = 0
    /\ now = 0
    /\ limits \in LimiterOptions
    /\ globalBucket = TokenBucket(limits.globalLimit, limits.globalLimit, 0)
    /\ routeBuckets = NoRouteBuckets
    /\ waiter = NoWaiters
    /\ passes = NoPasses
    /\ script = <<>>
    /\ rt = NewRetry
    /\ channelSize = 0
    /\ fs = NewFetch
    /\ scenario = NoScenario
    /\ wr = NewWrapped
    /\ thrown = NoThrown
    /\ verdict = "none"
    /\ tokenBucket = NoBucket
    /\ clock = 0
    /\ lastCall = NoCall
    /\ probe = NoProbe
    /\ executing = NoExecutions
    /\ bulk = NoBulk
    /\ svc = NoService
    /\ lastRegistered = NoRegistrations
    /\ disk = EmptyDisk
    /\ io = NoIo
    /\ discordServiceInstance = "null"
    /\ dispatch = NoDispatches
    /\ nuke = NoNuke
    /\ orch = NewOrchestrator

LimiterSpec == LimiterInit /\ [][LimNext]_vars

RetryInit ==
    /\ commands = EmptyCommands
    /\ inv = NoInvocations
    /\ registered = 0
    /\ now = 0
    /\ limits = DefaultLimits
    /\ globalBucket = TokenBucket(limits.globalLimit, limits.globalLimit, 0)
    /\ routeBuckets = NoRouteBuckets
    /\ waiter = NoWaiters
    /\ passes = NoPasses
    /\ script \in Scripts
    /\ rt = NewRetry
    /\ channelSize = 0
    /\ fs = NewFetch
    /\ scenario = NoScenario
    /\ wr = NewWrapped
    /\ thrown = NoThrown
    /\ verdict = "none"
    /\ tokenBucket = NoBucket
    /\ clock = 0
    /\ lastCall = NoCall
    /\ probe = NoProbe
    /\ executing = NoExecutions
    /\ bulk = NoBulk
    /\ svc = NoService
    /\ lastRegistered = NoRegistrations
    /\ disk = EmptyDisk
    /\ io = NoIo
    /\ discordServiceInstance = "null"
    /\ dispatch = NoDispatches
    /\ nuke = NoNuke
    /\ orch = NewOrchestrator

RetrySpec == RetryInit /\ [][RetryNext]_vars

FetchInit ==
    /\ commands = EmptyCommands
    /\ inv = NoInvocations
    /\ registered = 0
    /\ now = 0
    /\ limits = DefaultLimits
    /\ globalBucket = TokenBucket(limits.globalLimit, limits.globalLimit, 0)
    /\ routeBuckets = NoRouteBuckets
    /\ waiter = NoWaiters
    /\ passes = NoPasses
    /\ script = <<>>
    /\ rt = NewRetry
    /\ channelSize \in 0..MaxMessages
    /\ fs = NewFetch
    /\ scenario = NoScenario
    /\ wr = NewWrapped
    /\ thrown = NoThrown
    /\ verdict = "none"
    /\ tokenBucket = NoBucket
    /\ clock = 0
    /\ lastCall = NoCall
    /\ probe = NoProbe
    /\ executing = NoExecutions
    /\ bulk = NoBulk
    /\ svc = NoService
    /\ lastRegistered = NoRegistrations
    /\ disk = EmptyDisk
    /\ io = NoIo
    /\ discordServiceInstance = "null"
    /\ dispatch = NoDispatches
    /\ nuke = NoNuke
    /\ orch = NewOrchestrator

FetchSpec == FetchInit /\ [][FetchNext]_vars

\* One call is followed to its end: withRetry over the scripted operation,
\* or fetchMessages over the channel.  Every awaited call of the operation,
\* every page call and every sleep completes.  The operation fails with one
\* error of each treatment: retried after retryAfter, retried, rethrown.
TerminationErrors ==
    {e \in ErrorValues : e.class = "RateLimitError" /\ e.retryAfter # 0} \cup FetchErrors
TerminationScripts == UNION {[1..n -> TerminationErrors] : n \in 0..MaxFailures}

TerminationInit ==
    /\ commands = EmptyCommands
    /\ inv = NoInvocations
    /\ registered = 0
    /\ now = 0
    /\ limits = DefaultLimits
    /\ globalBucket = TokenBucket(limits.globalLimit, limits.globalLimit, 0)
    /\ routeBuckets = NoRouteBuckets
    /\ waiter = NoWaiters
    /\ passes = NoPasses
    /\ script \in TerminationScripts
    /\ rt = NewRetry
    /\ channelSize \in (IF script = <<>> THEN 0..MaxMessages ELSE {0})
    /\ fs = NewFetch
    /\ scenario = NoScenario
    /\ wr = NewWrapped
    /\ thrown = NoThrown
    /\ verdict = "none"
    /\ tokenBucket = NoBucket
    /\ clock = 0
    /\ lastCall = NoCall
    /\ probe = NoProbe
    /\ executing = NoExecutions
    /\ bulk = NoBulk
    /\ svc = NoService
    /\ lastRegistered = NoRegistrations
    /\ disk = EmptyDisk
    /\ io = NoIo
    /\ discordServiceInstance = "null"
    /\ dispatch = NoDispatches
    /\ nuke = NoNuke
    /\ orch = NewOrchestrator

TerminationNext ==
    \/ \E options \in RetryOptions : fs.pc = "idle" /\ WithRetry(options)
    \/ \E j \in JitterAddends(rt.opts.baseDelay) : RetryCallSettles(j)
    \/ RetryDelayOver
    \/ \E limit \in (0..MaxLimit) \cup {Infinity}, before \in 0..channelSize,
          onProgress \in ProgressObservers :
          rt.pc = "idle" /\ script = <<>> /\ FetchMessages(limit, before, onProgress)
    \/ FetchPageServed
    \/ \E error \in FetchErrors, j \in JitterAddends(fetchRetryOptions.baseDelay) :
          FetchPageFails(error, j)
    \/ FetchRetryDelayOver

TerminationFairness ==
    /\ WF_vars(\E j \in JitterAddends(rt.opts.baseDelay) : RetryCallSettles(j))
    /\ WF_vars(RetryDelayOver)
    /\ WF_vars(FetchPageServed
                 \/ \E error \in FetchErrors, j \in JitterAddends(fetchRetryOptions.baseDelay) :
                       FetchPageFails(error, j))
    /\ WF_vars(FetchRetryDelayOver)

TerminationSpec == TerminationInit /\ [][TerminationNext]_vars /\ TerminationFairness

ClassifierInit ==
    /\ commands = EmptyCommands
    /\ inv = NoInvocations
    /\ registered = 0
    /\ now = 0
    /\ limits = DefaultLimits
    /\ globalBucket = TokenBucket(limits.globalLimit, limits.globalLimit, 0)
    /\ routeBuckets = NoRouteBuckets
    /\ waiter = NoWaiters
    /\ passes = NoPasses
    /\ script = <<>>
    /\ rt = NewRetry
    /\ channelSize = 0
    /\ fs = NewFetch
    /\ scenario = NoScenario
    /\ wr = NewWrapped
    /\ thrown \in ThrownErrors
    /\ verdict = "none"
    /\ tokenBucket = NoBucket
    /\ clock = 0
    /\ lastCall = NoCall
    /\ probe = NoProbe
    /\ executing = NoExecutions
    /\ bulk = NoBulk
    /\ svc = NoService
    /\ lastRegistered = NoRegistrations
    /\ disk = EmptyDisk
    /\ io = NoIo
    /\ discordServiceInstance = "null"
    /\ dispatch = NoDispatches
    /\ nuke = NoNuke
    /\ orch = NewOrchestrator

ClassifierSpec == ClassifierInit /\ [][ClassifierNext]_vars

ExecInit ==
    /\ commands = EmptyCommands
    /\ inv = NoInvocations
    /\ registered = 0
    /\ now = 0
    /\ limits \in LimiterOptions
    /\ globalBucket = TokenBucket(limits.globalLimit, limits.globalLimit, 0)
    /\ routeBuckets = NoRouteBuckets
    /\ waiter = NoWaiters
    /\ passes = NoPasses
    /\ script = <<>>
    /\ rt = NewRetry
    /\ channelSize = 0
    /\ fs = NewFetch
    /\ scenario = NoScenario
    /\ wr = NewWrapped
    /\ thrown = NoThrown
    /\ verdict = "none"
    /\ tokenBucket = NoBucket
    /\ clock = 0
    /\ lastCall = NoCall
    /\ probe = NoProbe
    /\ executing = NoExecutions
    /\ bulk = NoBulk
    /\ svc = NoService
    /\ lastRegistered = NoRegistrations
    /\ disk = EmptyDisk
    /\ io = NoIo
    /\ discordServiceInstance = "null"
    /\ dispatch = NoDispatches
    /\ nuke = NoNuke
    /\ orch = NewOrchestrator

ExecSpec == ExecInit /\ [][ExecNext]_vars /\ ExecFairness

BulkInit ==
    /\ commands = EmptyCommands
    /\ inv = NoInvocations
    /\ registered = 0
    /\ now = 0
    /\ limits = DefaultLimits
    /\ globalBucket = TokenBucket(limits.globalLimit, limits.globalLimit, 0)
    /\ routeBuckets = NoRouteBuckets
    /\ waiter = NoWaiters
    /\ passes = NoPasses
    /\ script = <<>>
    /\ rt = NewRetry
    /\ channelSize = 0
    /\ fs = NewFetch
    /\ scenario = NoScenario
    /\ wr = NewWrapped
    /\ thrown = NoThrown
    /\ verdict = "none"
    /\ tokenBucket = NoBucket
    /\ clock = 0
    /\ lastCall = NoCall
    /\ probe = NoProbe
    /\ executing = NoExecutions
    /\ \E handler \in BulkHandlers : \E items \in BulkItems(handler) :
         bulk = NewBulk(handler, items)
    /\ svc = NoService
    /\ lastRegistered = NoRegistrations
    /\ disk = EmptyDisk
    /\ io = NoIo
    /\ discordServiceInstance = "null"
    /\ dispatch = NoDispatches
    /\ nuke = NoNuke
    /\ orch = NewOrchestrator

BulkSpec == BulkInit /\ [][BulkNext]_vars

ServiceInit ==
    /\ commands = EmptyCommands
    /\ inv = NoInvocations
    /\ registered = 0
    /\ now = 0
    /\ limits = DefaultLimits
    /\ globalBucket = TokenBucket(limits.globalLimit, limits.globalLimit, 0)
    /\ routeBuckets = NoRouteBuckets
    /\ waiter = NoWaiters
    /\ passes = NoPasses
    /\ script = <<>>
    /\ rt = NewRetry
    /\ channelSize = 0
    /\ fs = NewFetch
    /\ scenario = NoScenario
    /\ wr = NewWrapped
    /\ thrown = NoThrown
    /\ verdict = "none"
    /\ tokenBucket = NoBucket
    /\ clock = 0
    /\ lastCall = NoCall
    /\ probe = NoProbe
    /\ executing = NoExecutions
    /\ bulk = NoBulk
    /\ svc = NoService
    /\ lastRegistered = NoRegistrations
    /\ disk = EmptyDisk
    /\ io = NoIo
    /\ discordServiceInstance = "null"
    /\ dispatch = NoDispatches
    /\ nuke = NoNuke
    /\ orch = NewOrchestrator

ServiceSpec == ServiceInit /\ [][ServiceNext]_vars

BucketInit ==
    /\ commands = EmptyCommands
    /\ inv = NoInvocations
    /\ registered = 0
    /\ now = 0
    /\ limits = DefaultLimits
    /\ globalBucket = TokenBucket(limits.globalLimit, limits.globalLimit, 0)
    /\ routeBuckets = NoRouteBuckets
    /\ waiter = NoWaiters
    /\ passes = NoPasses
    /\ script = <<>>
    /\ rt = NewRetry
    /\ channelSize = 0
    /\ fs = NewFetch
    /\ scenario = NoScenario
    /\ wr = NewWrapped
    /\ thrown = NoThrown
    /\ verdict = "none"
    /\ \E capacity \in Capacities, refillRate \in RefillRates :
         tokenBucket = TokenBucket(capacity, refillRate, 0)
    /\ clock = 0
    /\ lastCall = NoCall
    /\ probe = NoProbe
    /\ executing = NoExecutions
    /\ bulk = NoBulk
    /\ svc = NoService
    /\ lastRegistered = NoRegistrations
    /\ disk = EmptyDisk
    /\ io = NoIo
    /\ discordServiceInstance = "null"
    /\ dispatch = NoDispatches
    /\ nuke = NoNuke
    /\ orch = NewOrchestrator

BucketSpec == BucketInit /\ [][BucketNext]_vars

WrapperInit ==
    /\ commands = RegisteredWithDefaults
    /\ inv = NoInvocations
    /\ registered = 1
    /\ now = 0
    /\ limits = DefaultLimits
    /\ globalBucket = TokenBucket(limits.globalLimit, limits.globalLimit, 0)
    /\ routeBuckets = NoRouteBuckets
    /\ waiter = NoWaiters
    /\ passes = NoPasses
    /\ script = <<>>
    /\ rt = NewRetry
    /\ channelSize = 0
    /\ fs = NewFetch
    /\ scenario \in Scenarios
    /\ wr = NewWrapped
    /\ thrown = NoThrown
    /\ verdict = "none"
    /\ tokenBucket = NoBucket
    /\ clock = 0
    /\ lastCall = NoCall
    /\ probe = NoProbe
    /\ executing = NoExecutions
    /\ bulk = NoBulk
    /\ svc = NoService
    /\ lastRegistered = NoRegistrations
    /\ disk = EmptyDisk
    /\ io = NoIo
    /\ discordServiceInstance = "null"
    /\ dispatch = NoDispatches
    /\ nuke = NoNuke
    /\ orch = NewOrchestrator

WrapperSpec == WrapperInit /\ [][WrapperNext]_vars

(***************************************************************************)
(* Claims about CommandRegistry.execute (checked under Spec)               *)
(***************************************************************************)
Logged(i, e) == \E k \in 1..Len(inv[i].log) : inv[i].log[k] = e
CountLogged(i, e) == Cardinality({k \in 1..Len(inv[i].log) : inv[i].log[k] = e})
Settled(i) == inv[i].pc \in {"returned", "rejected"}

\* C1: once the handler of a registered, authorized command has thrown,
\* execute never rejects: it is reporting the failure or has returned
\* normally, also when the editReply / reply that reports the failure throws.
C1_HandlerFailureNeverEscapes ==
    \A i \in Invocations :
        Logged(i, "threw") =>
            /\ inv[i].pc \in {"report", "returned"}
            /\ (Settled(i) => inv[i].pc = "returned")

C1_Witness ==
    \E i \in Invocations :
        /\ Logged(i, "threw") /\ Logged(i, "report_failed")
        /\ inv[i].pc = "returned"

\* C8: an invocation of a command registered with requiresAuth = true by an
\* actor other than the owner makes exactly one call on the response channel,
\* the authorization-failure reply, and ends there (returning when the reply
\* is delivered): the handler is never invoked, deferReply is never called.
C8_UnauthorizedNeverRunsHandler ==
    \A i \in Invocations :
        (inv[i].found /\ inv[i].requiresAuth /\ inv[i].user # ownerUserId) =>
            /\ inv[i].log = <<"reply:unauthorized">>
            /\ ~inv[i].deferred
            /\ inv[i].pc \in {"reply_unauthorized", "returned", "rejected"}
            /\ (inv[i].pc = "returned" => inv[i].replied)

C8_Witness ==
    \E i \in Invocations :
        /\ inv[i].found /\ inv[i].requiresAuth /\ inv[i].user # ownerUserId
        /\ inv[i].pc = "returned"

\* C9: an invocation of a name that is not registered makes exactly one call
\* on the response channel, the unknown-command reply, and ends there: no
\* deferReply, no handler.
C9_UnknownCommandRejectedOnce ==
    \A i \in Invocations :
        (inv[i].pc # "idle" /\ ~inv[i].found) =>
            /\ inv[i].log = <<"reply:unknown">>
            /\ ~inv[i].deferred
            /\ inv[i].handler = "none"
            /\ inv[i].pc \in {"reply_unknown", "returned", "rejected"}
            /\ (inv[i].pc = "returned" => inv[i].replied)

C9_Witness ==
    \E i \in Invocations :
        /\ inv[i].pc = "returned" /\ ~inv[i].found
        /\ inv[i].name \in CommandNames \cup {"nope"}

\* C10: for the owner and a command registered with defer = true, whenever
\* the handler has begun, deferReply was called and completed before it.
C10_AckBeforeHandler ==
    \A i \in Invocations :
        (inv[i].user = ownerUserId /\ inv[i].defer /\ Logged(i, "handler")) =>
            /\ inv[i].deferred
            /\ \E a, h \in 1..Len(inv[i].log) :
                  /\ inv[i].log[1] = "deferReply"
                  /\ inv[i].log[a] = "ack"
                  /\ inv[i].log[h] = "handler"
                  /\ a < h
                  /\ CountLogged(i, "handler") = 1

C10_Witness ==
    \E i \in Invocations :
        /\ inv[i].user = ownerUserId /\ inv[i].defer /\ inv[i].requiresAuth
        /\ Logged(i, "handler") /\ inv[i].pc = "returned"

\* The calls an invocation makes up to the handler, and the logs of the
\* rejections.
RejectionLogs == {<<"reply:unknown">>, <<"reply:unauthorized">>}
Authorized(i) == inv[i].found /\ (inv[i].requiresAuth => inv[i].user = ownerUserId)
Prelude(i) == IF inv[i].defer THEN <<"deferReply", "ack", "handler">> ELSE <<"handler">>
StartsWith(s, prefix) ==
    Len(s) >= Len(prefix) /\ SubSeq(s, 1, Len(prefix)) = prefix
Rejected(i) == inv[i].pc = "returned" /\ inv[i].log \in RejectionLogs /\ ~Authorized(i)
Completed(i) == inv[i].pc = "returned" /\ inv[i].log = Prelude(i) \o <<"completed">>
Failed(i) ==
    /\ inv[i].pc = "returned"
    /\ \E c \in {"editReply", "reply:error"}, o \in {"reported", "report_failed"} :
          inv[i].log = Prelude(i) \o <<"threw", c, o>>
AckBeforeHandler(i) ==
    \E a, h \in 1..Len(inv[i].log) :
        inv[i].log[a] = "ack" /\ inv[i].log[h] = "handler" /\ a < h

\* C11 as stated: every invocation ends in exactly one of Rejected, Completed
\* and Failed with nothing entered afterwards, the handler runs only after
\* the acknowledgement, and it is invoked at most once.
C11_AsStated ==
    \A i \in Invocations :
        /\ CountLogged(i, "handler") <= 1
        /\ (Logged(i, "handler") => AckBeforeHandler(i))
        /\ (Settled(i) => Rejected(i) \/ Completed(i) \/ Failed(i))

\* C11 amended: every invocation follows Received -> Rejected (unknown or
\* unauthorized) | Authorized -> [Acknowledged, for a command registered
\* with defer = true only] -> Executing -> {Completed | Failed}.  The handler
\* is invoked at most once, only for an authorized actor and, with defer =
\* true, only after the acknowledgement.  An execute that returns has ended
\* in exactly one of Rejected, Completed and Failed, and made no call after
\* it; an execute whose rejection reply or deferReply throws rejects with
\* that error and never invokes the handler.
C11_StateMachine ==
    \A i \in Invocations :
        /\ CountLogged(i, "handler") <= 1
        /\ (Logged(i, "handler") =>
                /\ Authorized(i)
                /\ StartsWith(inv[i].log, Prelude(i))
                /\ (inv[i].defer => AckBeforeHandler(i)))
        /\ (inv[i].pc = "returned" =>
                /\ Rejected(i) \/ Completed(i) \/ Failed(i)
                /\ ~(Rejected(i) /\ Completed(i))
                /\ ~(Rejected(i) /\ Failed(i))
                /\ ~(Completed(i) /\ Failed(i)))
        /\ (inv[i].pc = "rejected" =>
                /\ inv[i].log \in RejectionLogs \cup {<<"deferReply">>}
                /\ ~Logged(i, "handler"))

\* an authorized, acknowledged invocation whose handler threw
C11_Witness ==
    \E i \in Invocations :
        /\ Failed(i) /\ inv[i].defer /\ inv[i].requiresAuth
        /\ inv[i].log = <<"deferReply", "ack", "handler", "threw", "editReply", "reported">>

\* C13: when the handler has thrown, execute makes exactly one call that
\* reports the failure: editReply when the invocation was acknowledged
\* (deferReply completed) or replied to, a fresh reply otherwise.
C13_OneFailureMessage ==
    \A i \in Invocations :
        Logged(i, "threw") =>
            /\ CountLogged(i, "editReply") + CountLogged(i, "reply:error") = 1
            /\ (Logged(i, "ack") \/ inv[i].replied => Logged(i, "editReply"))
            /\ (~(Logged(i, "ack") \/ inv[i].replied) => Logged(i, "reply:error"))

\* a handler that runs unacknowledged, has not replied, and throws
C13_Witness ==
    \E i \in Invocations :
        /\ Logged(i, "threw") /\ ~inv[i].defer /\ ~inv[i].replied
        /\ Logged(i, "reply:error") /\ inv[i].pc = "returned"

\* an acknowledged handler that throws
C13_WitnessAcknowledged ==
    \E i \in Invocations :
        /\ Logged(i, "threw") /\ Logged(i, "ack")
        /\ Logged(i, "editReply") /\ inv[i].pc = "returned"

(***************************************************************************)
(* Claims about the composable guards (checked under WrapperSpec)          *)
(***************************************************************************)
\* what is compared: the calls on the response channel and the invocations
\* of the handler, in order, then how the call ended
IsObservable(e) ==
    e \in {"reply:unknown", "reply:unauthorized", "deferReply", "editReply",
           "reply:error", "handler"}
Observable(log) == SelectSeq(log, IsObservable)
WrappedSettled == wr.pc \in {"returned", "rejected"}

\* C12: on the same actor, handler behaviour and response-channel behaviour,
\* standardCommandWrapper(handler) and execute of the same handler registered
\* with requiresAuth = true and defer = true make the same response-channel
\* calls and handler invocations in the same order, and end the same way
\* (normal return or thrown error).
C12_WrapperEquivalentToRegistry ==
    \A i \in Invocations :
        (Settled(i) /\ WrappedSettled /\ inv[i].requiresAuth /\ inv[i].defer) =>
            /\ wr.log = Observable(inv[i].log)
            /\ wr.pc = inv[i].pc

(***************************************************************************)
(* Claims about RateLimiter.wait (checked under LimiterSpec)               *)
(***************************************************************************)
\* C2: a wait() that has returned consumed, from every bucket on its path
\* (the global bucket, and the route bucket when route is not 'global'), a
\* token that was available: each bucket reported zero wait time to the
\* caller at the moment it consumed.
C2_ReturnsOnlyWithTokens ==
    \A w \in Waiters :
        waiter[w].pc = "returned" =>
            /\ waiter[w].globalConsumed
            /\ (waiter[w].route # "global" => waiter[w].routeConsumed)

\* C3: from the construction of the limiter to any later instant, the number
\* of wait() calls that went through a bucket is at most the bucket's
\* capacity plus refillRate times the elapsed time.
C3_PassesBoundedByRefill ==
    /\ passes["global"] * 1000
          <= globalBucket.capacity * 1000 + globalBucket.refillRate * now
    /\ \A r \in Routes :
          passes[r] * 1000
             <= routeBuckets[r].capacity * 1000 + routeBuckets[r].refillRate * now


(***************************************************************************)
(* Claims about withRetry (checked under RetrySpec)                        *)
(***************************************************************************)
RetrySettled == rt.pc \in {"returned", "threw"}
\* what the specification calls a retryable failure: a rate-limit signal
\* (RateLimitError, status 429) or a transient failure named in the message
SignalsTransientFailure(error) ==
    error.class = "RateLimitError" \/ error.status = 429 \/ error.transientMessage
AllRetryable(n) == \A k \in 1..n : SignalsTransientFailure(script[k])

\* C5 as stated: an operation that fails exactly N times (with whatever
\* errors) and then succeeds, run with maxAttempts >= N + 1, makes withRetry
\* return the success value after exactly N + 1 invocations.
C5_AsStated ==
    (RetrySettled /\ rt.opts.maxAttempts >= Len(script) + 1) =>
        /\ rt.pc = "returned"
        /\ rt.value = SuccessValue
        /\ rt.calls = Len(script) + 1

\* C5 amended: an operation that fails exactly N times, each time with a
\* retryable error, and then succeeds, run with maxAttempts >= N + 1, makes
\* withRetry return the success value after exactly N + 1 invocations.
C5_RetryableFailuresThenSuccess ==
    (RetrySettled /\ rt.opts.maxAttempts >= Len(script) + 1
                  /\ AllRetryable(Len(script))) =>
        /\ rt.pc = "returned"
        /\ rt.value = SuccessValue
        /\ rt.calls = Len(script) + 1
        /\ Len(rt.sleeps) = Len(script)

C5_Witness ==
    /\ rt.pc = "returned" /\ Len(script) = 2 /\ AllRetryable(2)
    /\ rt.calls = 3 /\ rt.opts.maxAttempts = 3

\* C6 as stated: whatever the options, an operation whose first call fails
\* with a non-retryable error is invoked exactly once, and that same error
\* is rethrown with no delay.
C6_AsStated ==
    (RetrySettled /\ rt.calls >= 1 /\ Len(script) >= 1
                  /\ ~SignalsTransientFailure(script[1])) =>
        /\ rt.pc = "threw"
        /\ rt.thrown = script[1]
        /\ rt.calls = 1
        /\ rt.sleeps = <<>>

\* C6 amended: an operation that fails with a non-retryable error on an
\* attempt that is not the last one allowed (attempt index < maxAttempts - 1)
\* is not invoked again and that same error is rethrown with no delay after
\* it; failing so on the first call it is invoked exactly once.  On the last
\* allowed attempt the error is wrapped in RetryExhaustedError instead.
C6_NonRetryableRethrownBeforeLastAttempt ==
    \A k \in 1..Len(script) :
        (RetrySettled /\ rt.calls >= k /\ AllRetryable(k - 1)
                      /\ ~SignalsTransientFailure(script[k])) =>
            /\ rt.pc = "threw"
            /\ rt.calls = k
            /\ Len(rt.sleeps) = k - 1
            /\ (k < rt.opts.maxAttempts => rt.thrown = script[k])
            /\ (k = rt.opts.maxAttempts =>
                    rt.thrown = RetryExhaustedError(rt.opts.maxAttempts, script[k],
                                                    rt.opts.context))

C6_Witness ==
    /\ rt.pc = "threw" /\ Len(script) >= 1 /\ ~SignalsTransientFailure(script[1])
    /\ rt.opts.maxAttempts >= 2 /\ rt.thrown = script[1] /\ rt.calls = 1

\* C7: when every attempt fails with a retryable error, the operation is
\* invoked exactly maxAttempts times, with a sleep between two attempts only,
\* and withRetry throws RetryExhaustedError carrying maxAttempts, the context
\* label and the last error; with maxAttempts = 1 there is one invocation
\* and no sleep.
C7_ExhaustionAfterMaxAttempts ==
    (RetrySettled /\ rt.opts.maxAttempts >= 1
                  /\ Len(script) >= rt.opts.maxAttempts
                  /\ AllRetryable(rt.opts.maxAttempts)) =>
        /\ rt.pc = "threw"
        /\ rt.calls = rt.opts.maxAttempts
        /\ Len(rt.sleeps) = rt.opts.maxAttempts - 1
        /\ rt.thrown = RetryExhaustedError(rt.opts.maxAttempts,
                                           script[rt.opts.maxAttempts], rt.opts.context)
        /\ (rt.opts.maxAttempts = 1 => rt.calls = 1 /\ rt.sleeps = <<>>)

C7_Witness ==
    /\ rt.pc = "threw" /\ rt.opts.maxAttempts = 3 /\ Len(script) = 3
    /\ AllRetryable(3) /\ rt.calls = 3
    /\ rt.thrown.class = "RetryExhaustedError"

C7_WitnessSingleAttempt ==
    /\ rt.pc = "threw" /\ rt.opts.maxAttempts = 1 /\ Len(script) >= 1
    /\ AllRetryable(1) /\ rt.calls = 1

\* the delay computed for the k-th sleep, which follows attempt k - 1, the
\* random part aside
ExponentialDelay(k) ==
    Min(rt.opts.baseDelay * Pow(rt.opts.factor, k - 1), rt.opts.maxDelay)

\* C19: whenever the error of a failed attempt carries a required wait
\* (retryAfter), the sleep that follows it is max(computedDelay,
\* requiredDelay), hence never shorter than the required wait.
C19_RequiredWaitHonoured ==
    \A k \in 1..Len(rt.sleeps) :
        script[k].retryAfter > 0 =>
            /\ rt.sleeps[k] >= script[k].retryAfter
            /\ \E j \in JitterAddends(rt.opts.baseDelay) :
                  rt.sleeps[k] = Max(ExponentialDelay(k) + (IF rt.opts.jitter THEN j ELSE 0),
                                     script[k].retryAfter)

\* C20 as stated: with jitter disabled, the k-th sleep (0-indexed: the one
\* that follows attempt k) lasts min(baseDelay * factor^k, maxDelay) exactly.
C20_AsStated ==
    ~rt.opts.jitter =>
        \A k \in 1..Len(rt.sleeps) : rt.sleeps[k] = ExponentialDelay(k)

\* C20 amended: with jitter disabled, the sleep that follows the failed
\* attempt k (0-indexed) lasts min(baseDelay * factor^k, maxDelay) exactly,
\* unless the error is a RateLimitError carrying a retryAfter, and then the
\* larger of the two.
C20_DelayWithoutJitter ==
    ~rt.opts.jitter =>
        \A k \in 1..Len(rt.sleeps) :
            rt.sleeps[k] =
                IF script[k].class = "RateLimitError" /\ script[k].retryAfter > 0
                THEN Max(ExponentialDelay(k), script[k].retryAfter)
                ELSE ExponentialDelay(k)

\* two sleeps without jitter, the second one capped by maxDelay
C20_Witness ==
    /\ ~rt.opts.jitter /\ rt.opts.baseDelay = 2 /\ Len(rt.sleeps) = 2
    /\ rt.sleeps = <<2, rt.opts.maxDelay>>
    /\ 2 * rt.opts.factor > rt.opts.maxDelay

(***************************************************************************)
(* Claims about DiscordService.fetchMessages (checked under FetchSpec)     *)
(***************************************************************************)
\* C4: fetchMessages never throws.  When withRetry over the page request
\* has thrown, the call has returned, and what it returned is exactly the
\* items of the pages served before.  When every page request failed, the
\* result is the empty list, returned after retry exhaustion (all
\* DEFAULT_OPTIONS.maxAttempts attempts, when the failures are retryable).
C4_FetchSwallowsFailure ==
    /\ fs.pc \in {"idle", "page", "returned"}
    /\ (fs.caught = "withRetry" =>
            /\ fs.pc = "returned"
            /\ fs.result = fs.pagesServed
            /\ fs.failedCalls >= 1)
    /\ (fs.pc = "returned" /\ fs.limit > 0 /\ fs.failedCalls = fs.pageRequests) =>
            /\ fs.result = <<>>
            /\ fs.caught = "withRetry"
            /\ (fs.fatalFailures = 0 => fs.pageRequests = DEFAULT_OPTIONS.maxAttempts)

\* a partial result: one page served, then the requests for the second page
\* fail until the attempts are exhausted
C4_Witness ==
    /\ fs.pc = "returned" /\ fs.caught = "withRetry"
    /\ Len(fs.result) = batchSize
    /\ fs.failedCalls = DEFAULT_OPTIONS.maxAttempts /\ fs.fatalFailures = 0

\* a source whose page calls always fail
C4_WitnessAlwaysFailing ==
    /\ fs.pc = "returned" /\ fs.limit > 0 /\ channelSize > 0
    /\ fs.failedCalls = fs.pageRequests
    /\ fs.pageRequests = DEFAULT_OPTIONS.maxAttempts
    /\ fs.result = <<>>

\* the pages served that held items, and the items the source holds beyond
\* the cursor the call was given
Range(q) == {q[k] : k \in 1..Len(q)}
NoDuplicates(q) == \A a, b \in 1..Len(q) : q[a] = q[b] => a = b
Oldest(items) == CHOOSE m \in Range(items) : \A n \in Range(items) : m <= n
Older(a, boundary) == boundary = 0 \/ a < boundary
LastPageEmpty == fs.pages # <<>> /\ fs.pages[Len(fs.pages)].items = <<>>
Undisturbed == fs.failedCalls = 0 /\ fs.caught = "nothing"
Available ==
    IF fs.pages = <<>> THEN 0
    ELSE IF fs.pages[1].before = 0 THEN channelSize
    ELSE Min(fs.pages[1].before - 1, channelSize)

\* C14: within one fetchMessages call no id appears twice in the accumulated
\* result; after each non-empty page the cursor is the id of the oldest item
\* of that page, so the `before` boundary of the request for the next page
\* is strictly older than the boundary of the request that brought this one.
C14_CursorAdvances ==
    /\ NoDuplicates(fs.allMessages)
    /\ \A k \in 1..Len(fs.pages) :
          fs.pages[k].items # <<>> =>
             /\ \A m \in Range(fs.pages[k].items) : Older(m, fs.pages[k].before)
             /\ (k < Len(fs.pages) =>
                    /\ fs.pages[k + 1].before = Oldest(fs.pages[k].items)
                    /\ fs.pages[k + 1].before # 0
                    /\ Older(fs.pages[k + 1].before, fs.pages[k].before))
             /\ (k = Len(fs.pages) => fs.lastId = Oldest(fs.pages[k].items))

\* two pages with items, fetched behind one another
C14_Witness ==
    /\ fs.pc = "returned" /\ Len(fs.pages) >= 2
    /\ \A k \in 1..2 : Len(fs.pages[k].items) = batchSize
    /\ fs.pages[2].before = fs.pages[1].items[batchSize]
    /\ Len(fs.result) = 2 * batchSize

C15_WitnessExhausted ==
    /\ fs.pc = "returned" /\ fs.limit # Infinity /\ Len(fs.result) < fs.limit
    /\ Len(fs.result) > 0 /\ LastPageEmpty /\ Undisturbed

\* C16: with no failure, against a source that serves the non-empty pages
\* p1..pk and then an empty page, and a limit larger than the number of
\* items, fetchMessages returns p1 ++ ... ++ pk, all the items newest first,
\* after exactly k + 1 page requests; with a limit of at least 1 and at most
\* the page size, against a source holding that many items, it returns the
\* first `limit` items after exactly one page request.
C16_PagesConcatenated ==
    (fs.pc = "returned" /\ Undisturbed /\ fs.pages # <<>>) =>
        /\ (fs.limit > Available =>
               /\ fs.result = [j \in 1..Available |-> Available - j + 1]
               /\ fs.result = fs.pagesServed
               /\ \A k \in 1..(Len(fs.pages) - 1) : fs.pages[k].items # <<>>
               /\ LastPageEmpty
               /\ fs.pageRequests = Len(fs.pages)
               /\ fs.pageRequests = CeilDiv(Available, batchSize) + 1)
        /\ (fs.limit >= 1 /\ fs.limit <= batchSize /\ fs.limit <= Available =>
               /\ fs.result = [j \in 1..fs.limit |-> Available - j + 1]
               /\ fs.pageRequests = 1)

\* two full pages, then an empty one
C16_Witness ==
    /\ fs.pc = "returned" /\ Undisturbed /\ fs.limit > Available
    /\ Available = 2 * batchSize /\ fs.pageRequests = 3
    /\ Len(fs.result) = 2 * batchSize

\* a limit below the first page
C16_WitnessFirstPage ==
    /\ fs.pc = "returned" /\ Undisturbed /\ fs.limit = 1 /\ Available >= batchSize
    /\ fs.pageRequests = 1 /\ Len(fs.result) = 1

\* C17 as stated: with limit = Infinity, once a page has come back with
\* fewer items than asked, or with none, the loop ends and no further page
\* request is issued.
C17_AsStated ==
    fs.limit = Infinity =>
        \A k \in 1..Len(fs.pages) :
            Len(fs.pages[k].items) < fs.pages[k].requested =>
                /\ fs.pc = "returned"
                /\ k = Len(fs.pages)

\* C17 amended: with limit = Infinity, once a page has come back with no
\* items the loop has ended and no further page request is issued; after a
\* page with items but fewer than asked the loop goes on to request exactly
\* one more page, and ends when that page comes back empty (or when its
\* request fails for good, or the progress observer throws).
C17_UnlimitedEndsOnEmptyPage ==
    fs.limit = Infinity =>
        \A k \in 1..Len(fs.pages) :
            /\ fs.pages[k].requested = batchSize
            /\ (fs.pages[k].items = <<>> =>
                    /\ fs.pc = "returned"
                    /\ k = Len(fs.pages)
                    /\ fs.retry.pc = "idle")
            /\ (fs.pages[k].items # <<>> /\ Len(fs.pages[k].items) < batchSize =>
                    /\ k >= Len(fs.pages) - 1
                    /\ (k < Len(fs.pages) => fs.pages[k + 1].items = <<>>)
                    /\ (k = Len(fs.pages) =>
                           fs.pc = "page" \/ fs.caught # "nothing"))

\* a short page, then the request that comes back empty
C17_Witness ==
    /\ fs.limit = Infinity /\ fs.pc = "returned" /\ Undisturbed
    /\ Len(fs.pages) = 3 /\ Len(fs.pages[2].items) = 1
    /\ fs.pageRequests = 3 /\ LastPageEmpty

(***************************************************************************)
(* Termination (checked under TerminationSpec)                             *)
(***************************************************************************)
\* C18: provided each page call and each sleep completes, every
\* fetchMessages call with a finite limit eventually returns and every
\* withRetry call eventually returns or throws.
C18_LoopsTerminate ==
    /\ (fs.pc = "page" /\ fs.limit # Infinity) ~> (fs.pc = "returned")
    /\ (rt.pc \in {"call", "sleep"}) ~> RetrySettled

\* a fetch that went through failed requests and several pages to its end
C18_Witness ==
    /\ fs.pc = "returned" /\ fs.limit # Infinity
    /\ fs.failedCalls >= 2 /\ Len(fs.pages) >= 2

\* a withRetry call that slept between its attempts and ran out of them
C18_WitnessRetry ==
    /\ rt.pc = "threw" /\ Len(rt.sleeps) = 2 /\ rt.calls = 3

(***************************************************************************)
(* Claims about isRetryableError (checked under ClassifierSpec)            *)
(***************************************************************************)
\* what calls for a retry: an explicit rate-limit condition (RateLimitError,
\* status 429), a timeout, a connection reset / refused / hang-up, a generic
\* network failure, a 5xx-class failure
TransientKinds == {"rate-limit", "timeout", "reset", "refused", "hang-up", "network", "5xx"}
SignalsRetryableCondition(t) ==
    \/ t.class = "RateLimitError"
    \/ t.code = 429
    \/ t.code \in 500..599
    \/ Messages[t.message].kind \in TransientKinds

\* C21: isRetryableError answers true if and only if the error signals an
\* explicit rate-limit condition, a timeout, a connection reset / refused /
\* hang-up, a generic network failure or a 5xx-class failure; every other
\* failure (not-found, forbidden, validation) is classified non-retryable.
C21_RetryableIffTransient ==
    verdict # "none" =>
        (verdict = "retryable" <=> SignalsRetryableCondition(thrown))


(***************************************************************************)
(* Claims about TokenBucket (checked under BucketSpec)                     *)
(***************************************************************************)
\* the bucket as the last call saw it once its lazy refill was done
Refilled == refill(lastCall.before, lastCall.at)

\* C22: in every reachable state of a TokenBucket the number of tokens lies
\* between 0 and the capacity, whatever refill, tryConsume and getWaitTime
\* calls were made under a clock that never goes back.
C22_TokensWithinCapacity ==
    /\ 0 <= tokenBucket.tokens
    /\ tokenBucket.tokens <= tokenBucket.capacity * 1000
    /\ tokenBucket.lastRefill <= clock

\* witness: a refill that met the cap, on a bucket that had been consumed from
C22_Witness ==
    /\ lastCall.op = "refill"
    /\ lastCall.before.tokens < tokenBucket.capacity * 1000
    /\ lastCall.before.tokens + (lastCall.at - lastCall.before.lastRefill) * tokenBucket.refillRate
         > tokenBucket.capacity * 1000
    /\ tokenBucket.tokens = tokenBucket.capacity * 1000

\* witness: a bucket emptied to exactly no tokens
C22_WitnessEmpty == lastCall.op = "tryConsume" /\ lastCall.result /\ tokenBucket.tokens = 0

\* C23: once the capacity of a fresh bucket has been consumed in consecutive
\* calls, getWaitTime(1) is positive; and after a sleep of the time it
\* returned, tryConsume(1) succeeds.
C23_WaitThenConsume ==
    /\ probe.stage = "asked" => lastCall.wait > 0
    /\ probe.stage = "retried" => lastCall.result

\* witness: the retry succeeded after a wait that had to be rounded up
C23_Witness ==
    /\ probe.stage = "retried"
    /\ lastCall.result
    /\ tokenBucket.refillRate = 3
    /\ probe.consumed = tokenBucket.capacity

\* C24: tryConsume(count) returns true and takes exactly count tokens if and
\* only if the lazily refilled bucket holds at least count tokens; otherwise
\* it returns false and leaves the refilled bucket as it is.
C24_ConsumeAllOrNothing ==
    lastCall.op = "tryConsume" =>
        /\ lastCall.result <=> Refilled.tokens >= lastCall.count * 1000
        /\ lastCall.result => tokenBucket = [Refilled EXCEPT !.tokens = @ - lastCall.count * 1000]
        /\ ~lastCall.result => tokenBucket = Refilled

\* witness: a refused tryConsume on a bucket that held part of what was asked
C24_Witness ==
    /\ lastCall.op = "tryConsume"
    /\ ~lastCall.result
    /\ lastCall.count = 2
    /\ tokenBucket.tokens > 0
    /\ lastCall.at > lastCall.before.lastRefill

\* witness: a granted tryConsume of more than one token
C24_WitnessGranted ==
    /\ lastCall.op = "tryConsume"
    /\ lastCall.result
    /\ lastCall.count = 2
    /\ tokenBucket.tokens = Refilled.tokens - 2000

(***************************************************************************)
(* Claims about RateLimiter's route buckets (C25 is checked under ExecSpec, *)
(* C26 under LimiterSpec)                                                  *)
(***************************************************************************)
\* the activations of wait that have reached their route bucket
ReachedRouteBucket(w) ==
    /\ waiter[w].route # "global"
    /\ waiter[w].pc \in {"sleep_route", "returned"}

\* C25: once the bucket of a route exists, its capacity never changes,
\* whatever calls of wait(route, type) follow.
C25_CapacityFixed ==
    [][\A r \in Routes : routeBuckets[r] # NoBucket =>
            /\ routeBuckets'[r] # NoBucket
            /\ routeBuckets'[r].capacity = routeBuckets[r].capacity]_vars

\* witness: a route whose bucket has served calls of both types
C25_Witness ==
    \E v, w \in Waiters :
        /\ ReachedRouteBucket(v) /\ ReachedRouteBucket(w)
        /\ waiter[v].route = waiter[w].route
        /\ waiter[v].type = "default" /\ waiter[w].type = "delete"
        /\ limits.messageLimit # limits.deleteLimit
        /\ passes[waiter[w].route] >= 2

\* C26: every wait(route, type) on a route other than 'global' goes through
\* a route bucket whose capacity is the delete limit when type is 'delete'
\* and the default (message) limit otherwise, also when one route key is
\* used with both types.
C26_BucketSizedByType ==
    \A w \in Waiters : ReachedRouteBucket(w) =>
        routeBuckets[waiter[w].route].capacity = routeCapacity(waiter[w].type)

(***************************************************************************)
(* Claims about RateLimiter.wait and execute (checked under ExecSpec)      *)
(***************************************************************************)
\* what execute may have done so far, for each of its activations
ExecutePassesThrough ==
    \A w \in Callers :
        /\ executing[w].pc = "awaiting" => executing[w].fnCalls = 0
        /\ executing[w].pc = "settled" =>
               /\ executing[w].fnCalls = 1
               /\ executing[w].calledAfterWait
               /\ executing[w].outcome.value = executing[w].fn.value
               /\ executing[w].outcome.kind = "fulfilled" <=> executing[w].fn.kind = "returns"
        /\ waiter[w].pc \in {"idle", "sleep_global", "sleep_route", "returned"}

\* a step puts wait to sleep on a bucket only from before that bucket
SleepsOncePerBucket ==
    \A w \in Callers :
        /\ waiter'[w].pc = "idle" => waiter[w].pc = "idle"
        /\ waiter'[w].pc = "sleep_global" /\ waiter[w].pc # "sleep_global"
               => waiter[w].pc = "idle"
        /\ waiter'[w].pc = "sleep_route" /\ waiter[w].pc # "sleep_route"
               => waiter[w].pc \in {"idle", "sleep_global"}

\* C27: wait never raises and always eventually returns, sleeping at most
\* once on each bucket of its path; execute(fn, route, type) settles to what
\* fn returned or threw, unmodified, and calls fn exactly once, after wait
\* has returned.
C27_WaitReturnsExecutePassesThrough ==
    /\ []ExecutePassesThrough
    /\ [][SleepsOncePerBucket]_vars
    /\ \A w \in Callers :
          executing[w].pc = "awaiting"
              ~> (waiter[w].pc = "returned" /\ executing[w].pc = "settled")

\* witness: an execute whose wait slept on its route bucket (the global
\* bucket had room for both calls) and that surfaced what fn threw
C27_Witness ==
    \E w \in Callers :
        /\ executing[w].pc = "settled"
        /\ executing[w].fn.kind = "throws"
        /\ executing[w].outcome = [kind |-> "rejected", value |-> executing[w].fn.value]
        /\ waiter[w].route # "global"
        /\ limits.globalLimit = 2
        /\ waiter[w].wakeAt > 0
        /\ passes[waiter[w].route] = 2

\* witness: an execute whose wait slept on the global bucket and that
\* returned what fn returned
C27_WitnessGlobalSleep ==
    \E w \in Callers :
        /\ executing[w].pc = "settled"
        /\ executing[w].outcome = [kind |-> "fulfilled", value |-> 2]
        /\ limits.globalLimit = 1
        /\ waiter[w].wakeAt > 0

(***************************************************************************)
(* Claims about the bulk handlers (checked under BulkSpec)                 *)
(***************************************************************************)
\* the number of items loop l has gone through so far
Attempted(l) ==
    IF bulk.pc \in {"start", "warning"} \/ bulk.escaped = "warning" \/ l > bulk.loop
    THEN 0
    ELSE IF l < bulk.loop THEN bulk.items[l]
    ELSE IF bulk.pc = "loop" THEN bulk.i
    ELSE IF bulk.pc = "rejected" /\ bulk.escaped = "item" THEN bulk.i
    ELSE bulk.items[l]

\* the reports made that carry the success and error counts of loop l
AggregateReports(l) ==
    {r \in 1..Len(bulk.reports) :
        /\ bulk.reports[r].loop = l
        /\ bulk.reports[r].count = bulk.deleteCount[l]
        /\ bulk.reports[r].errors = bulk.errorCount[l]}

\* C28: in the bulk handlers the failure of an item's mutating call
\* increments the error counter and the loop goes on: every item is
\* attempted exactly once by the loop, successes plus errors equal the
\* number of items, no failure of an item escapes the handler, and the
\* aggregate success/error count of a loop is reported once, after it.
C28_ItemFailuresIsolated ==
    /\ \A l \in 1..Len(bulk.items) :
          /\ bulk.deleteCount[l] + bulk.errorCount[l] = Attempted(l)
          /\ \A k \in 1..bulk.items[l] :
                bulk.attempts[l][k] = IF k <= Attempted(l) THEN 1 ELSE 0
          /\ bulk.pc = "loop" /\ l >= bulk.loop => AggregateReports(l) = {}
    /\ bulk.escaped # "item"
    /\ bulk.pc = "returned" =>
          \A l \in 1..Len(bulk.items) :
              /\ Attempted(l) = bulk.items[l]
              /\ Cardinality(AggregateReports(l)) = 1
              /\ \A r \in 1..Len(bulk.reports) :
                    bulk.reports[r].loop = l => r \in AggregateReports(l)

\* witness: a handler that returned after a loop with failures and successes
C28_Witness ==
    /\ bulk.pc = "returned"
    /\ bulk.handler = "cleaner-selfpurge"
    /\ bulk.errorCount[1] >= 2
    /\ bulk.deleteCount[1] >= 1
    /\ Len(bulk.reports) = 1

\* witness: cleaner-bulk returned with failures in both of its loops
C28_WitnessTwoLoops ==
    /\ bulk.pc = "returned"
    /\ bulk.handler = "cleaner-bulk"
    /\ bulk.errorCount[1] >= 1 /\ bulk.errorCount[2] >= 1
    /\ Len(bulk.reports) = 3

(***************************************************************************)
(* Claims about DiscordService's fetches by id (checked under ServiceSpec) *)
(***************************************************************************)
\* a snowflake: seventeen to nineteen decimal digits and nothing else
IsSnowflake(id) ==
    /\ Len(id) >= 17 /\ Len(id) <= 19
    /\ {id[k] : k \in 1..Len(id)} \subseteq Digits

\* C29: fetchChannel, fetchUser and fetchUserSelf called with an id that is
\* not a snowflake throw ValidationError before any rate-limiter wait, any
\* retry attempt and any client call.
C29_MalformedIdRejectedFirst ==
    svc.pc # "idle" /\ ~IsSnowflake(svc.id) =>
        /\ svc.pc = "rejected"
        /\ svc.thrown = ValidationError
        /\ svc.waits = 0
        /\ svc.clientCalls = 0
        /\ svc.retry = NewRetry

\* witness: twenty digits, rejected
C29_Witness ==
    /\ svc.pc = "rejected"
    /\ svc.method = "fetchChannel"
    /\ Len(svc.id) = 20
    /\ svc.thrown = ValidationError

\* witness: a snowflake went on to the limiter, the client and a retry
C29_WitnessValid ==
    /\ svc.pc = "returned"
    /\ Len(svc.id) = 19
    /\ svc.waits = 2 /\ svc.clientCalls = 2

(***************************************************************************)
(* Claims about CommandRegistry.register (checked under OverwriteSpec)     *)
(***************************************************************************)
\* the entry a register() call with these arguments is to leave
EntryOf(r) ==
    [handler |-> r.handler, requiresAuth |-> r.requiresAuth # "false",
     defer |-> r.defer # "false"]

\* a step that registers a name already registered overwrites its entry
OverwritesInPlace ==
    \A name \in CommandNames :
        lastRegistered'[name].times = lastRegistered[name].times + 1 /\ has(name) =>
            /\ size' = size
            /\ has(name)'
            /\ commands'[name] = EntryOf(lastRegistered'[name])

\* a step that begins execute(name, ...) takes the latest entry of the name
ExecuteTakesLatest ==
    \A i \in Invocations :
        /\ inv[i].pc = "idle" /\ inv'[i].pc # "idle"
        /\ inv'[i].name \in CommandNames
        /\ lastRegistered[inv'[i].name].times >= 1
        => /\ inv'[i].found
           /\ inv'[i].handler = lastRegistered[inv'[i].name].handler
           /\ inv'[i].requiresAuth = EntryOf(lastRegistered[inv'[i].name]).requiresAuth
           /\ inv'[i].defer = EntryOf(lastRegistered[inv'[i].name]).defer

\* C30: register(name, handler, options) on a registered name overwrites
\* the entry: size is unchanged, has(name) stays true, and an execute that
\* follows runs the handler registered last, once, under its own options,
\* requiresAuth and defer being true unless given as false.
C30_RegisterOverwrites ==
    /\ [][OverwritesInPlace /\ ExecuteTakesLatest]_vars
    /\ [](\A i \in Invocations : CountLogged(i, "handler") <= 1)
    /\ [](\A name \in CommandNames : lastRegistered[name].times >= 1 => has(name))

\* witness: h2 registered with default options over h1 registered without
\* defer and authorization, then executed for the owner: deferred, h2 run
C30_Witness ==
    \E i \in Invocations :
        LET last == lastRegistered["purge"]
        IN /\ last.times = 2
           /\ last.replaced = [handler |-> "h1", requiresAuth |-> FALSE, defer |-> FALSE]
           /\ last.handler = "h2"
           /\ last.requiresAuth = "default" /\ last.defer = "default"
           /\ last.hadBefore /\ last.sizeBefore = 1 /\ size = 1
           /\ inv[i].pc = "returned"
           /\ inv[i].handler = "h2"
           /\ inv[i].requiresAuth /\ inv[i].deferred
           /\ Logged(i, "completed")

(***************************************************************************)
(* Claims about utils/file (checked under FileSpec)                        *)
(***************************************************************************)
\* nothing on the path stands in the way of the write
Unobstructed(d) ==
    /\ d.denied = 0
    /\ \A k \in 1..(Depth - 1) : d.entries[k].kind # "file"
    /\ d.entries[Depth].kind # "dir"

\* C31: safeWriteFile creates every missing parent directory, then the
\* file, and returns true, after which the file is there with the content
\* given; on any failure it returns false, and it never throws.  ensureDir
\* on a directory that exists succeeds.
C31_SafeWriteNeverThrows ==
    /\ io.op = "safeWriteFile" =>
          /\ io.pc # "threw"
          /\ io.pc = "returned" =>
                /\ io.result \in {"true", "false"}
                /\ io.result = "true" <=> io.errors = <<>>
                /\ Unobstructed(io.before) => io.result = "true"
                /\ io.result = "true" =>
                      /\ disk.entries[Depth] = File(io.content)
                      /\ \A k \in 1..(Depth - 1) : disk.entries[k] = Directory
    /\ io.op = "ensureDir" /\ io.pc \in {"returned", "threw"}
          /\ io.level > 0 /\ io.before.entries[io.level] = Directory
          => io.pc = "returned" /\ disk = io.before

\* witness: both parent directories were missing, the file was written
C31_Witness ==
    /\ io.op = "safeWriteFile" /\ io.pc = "returned" /\ io.result = "true"
    /\ \A k \in Levels : io.before.entries[k] = Absent
    /\ disk.entries[Depth] = File("new")

\* witness: a file stood where the directory was to be; false was returned
C31_WitnessFailure ==
    /\ io.op = "safeWriteFile" /\ io.pc = "returned" /\ io.result = "false"
    /\ io.errors = <<"EEXIST", "ENOTDIR">>

(***************************************************************************)
(* Claims about the backoff delay with jitter (checked under RetrySpec)    *)
(***************************************************************************)
\* min(baseDelay * factor^a, maxDelay) for the options of the running call
CappedBackoff(a) == Min(rt.opts.baseDelay * Pow(rt.opts.factor, a), rt.opts.maxDelay)

\* C32: the i-th sleep follows the failure of attempt index a = i - 1, which
\* was retryable and not the last attempt.  With jitter enabled it is at
\* least min(baseDelay*factor^a, maxDelay) and less than that plus
\* baseDelay, and with or without jitter it does not exceed
\* maxDelay + baseDelay - unless the failure carries a larger required wait.
C32_JitterWithinBaseDelay ==
    \A i \in 1..Len(rt.sleeps) :
        LET d == rt.sleeps[i]
            failure == script[i]
        IN /\ isRetryableError(failure) /\ i < rt.opts.maxAttempts
           /\ rt.opts.jitter =>
                 /\ CappedBackoff(i - 1) <= d
                 /\ d < CappedBackoff(i - 1) + rt.opts.baseDelay
                       \/ failure.retryAfter >= CappedBackoff(i - 1) + rt.opts.baseDelay
           /\ d <= rt.opts.maxDelay + rt.opts.baseDelay
                 \/ failure.retryAfter > rt.opts.maxDelay + rt.opts.baseDelay

\* witness: jitter enabled, the second sleep is capped by maxDelay and takes
\* the largest addend, no required wait is carried
C32_Witness ==
    /\ rt.opts.jitter /\ rt.opts.baseDelay = 2
    /\ Len(rt.sleeps) = 2
    /\ script[2].retryAfter = 0
    /\ rt.sleeps[2] = rt.opts.maxDelay + rt.opts.baseDelay - 1

\* witness: a RateLimitError's required wait exceeds what jitter can reach
C32_WitnessRequiredWait ==
    /\ rt.opts.jitter /\ rt.opts.baseDelay = 1
    /\ Len(rt.sleeps) >= 1
    /\ rt.sleeps[1] = 4 /\ script[1].retryAfter = 4

(***************************************************************************)
(* Claims about the limiter wait of fetchMessages (checked under FetchSpec)*)
(***************************************************************************)
\* the iterations of the while loop entered so far: those that got a page,
\* the one whose withRetry threw, and the one that is running
PagesBegun ==
    Len(fs.pages) + (IF fs.pc = "page" \/ fs.caught = "withRetry" THEN 1 ELSE 0)

\* C33 as stated: the limiter wait is performed once per page, before and
\* outside the retried operation; the retries of a page do not wait again.
C33_AsStated == fs.limiterWaits <= PagesBegun

\* C33: the limiter wait is part of the retried operation: it is performed
\* once per attempt, before each call of channel.messages.fetch, so a page
\* that took k attempts waited on the limiter k times.
C33_WaitPerAttempt ==
    /\ fs.limiterWaits = fs.pageRequests
    /\ fs.limiterWaits = Len(fs.pages) + fs.failedCalls
    /\ fs.pc = "page" => fs.limiterWaits = (PagesBegun - 1) + fs.failedCalls
                             /\ fs.retry.calls <= fs.failedCalls

\* witness: the first page took three attempts and three limiter waits
C33_Witness ==
    /\ Len(fs.pages) = 1 /\ fs.failedCalls = 2
    /\ fs.limiterWaits = 3
    /\ Len(fs.pages[1].items) > 0

(***************************************************************************)
(* Claims about failures of the response channel outside the handler       *)
(* (checked under Spec)                                                    *)
(***************************************************************************)
\* C34: execute never rejects, whatever the response channel does outside
\* the handler: a reply that throws in the unknown-command branch or in the
\* authorization-failure branch, and a deferReply that throws before the
\* handler runs, do not reach the caller of execute.
C34_ExecuteNeverRejects ==
    \A i \in Invocations :
        inv[i].log \in {<<"reply:unknown">>, <<"reply:unauthorized">>, <<"deferReply">>}
            => inv[i].pc # "rejected"

(***************************************************************************)
(* Claims about the number of invocations of withRetry (checked under      *)
(* RetrySpec)                                                              *)
(***************************************************************************)
\* C35: on every path through withRetry, for any options, the operation is
\* invoked at least once and at most maxAttempts times, the number of
\* backoff sleeps is the number of invocations minus one, no sleep follows
\* the final invocation, and a RetryExhaustedError wraps a non-null last
\* error.
C35_InvokedOnceAtLeast ==
    /\ rt.calls <= Max(rt.opts.maxAttempts, 0)
    /\ rt.pc = "sleep" => Len(rt.sleeps) = rt.calls /\ rt.calls < rt.opts.maxAttempts
    /\ rt.pc \in {"returned", "threw"} =>
          /\ 1 <= rt.calls /\ rt.calls <= rt.opts.maxAttempts
          /\ Len(rt.sleeps) = rt.calls - 1
          /\ rt.thrown.class = "RetryExhaustedError" => rt.thrown.lastError # NoError

(***************************************************************************)
(* Claims about a progress observer that throws (checked under FetchSpec)  *)
(***************************************************************************)
\* the items of every page served, in the order served
RECURSIVE ItemsOf(_)
ItemsOf(pages) ==
    IF pages = <<>> THEN <<>>
    ELSE ItemsOf(SubSeq(pages, 1, Len(pages) - 1)) \o pages[Len(pages)].items

\* C36: an exception thrown by the onProgress observer does not leave
\* fetchMessages: the loop stops without asking for a further page, and the
\* list returned holds the page just appended (totalFetched and the cursor
\* already advanced) together with all the earlier pages.
C36_ObserverFailureContained ==
    /\ fs.pc # "threw"
    /\ fs.caught = "onProgress" =>
          /\ fs.pc = "returned"
          /\ Len(fs.pages) >= 1 /\ fs.pages[Len(fs.pages)].items # <<>>
          /\ fs.result = ItemsOf(fs.pages)
          /\ fs.totalFetched = Len(fs.result)
          /\ fs.lastId = fs.result[Len(fs.result)]
          /\ fs.pageRequests = Len(fs.pages) + fs.failedCalls
          /\ fs.progressCalls = Len(fs.pages)

\* witness: the observer threw at the second page; both pages are returned
C36_Witness ==
    /\ fs.caught = "onProgress" /\ fs.pc = "returned"
    /\ Len(fs.pages) = 2
    /\ Len(fs.result) = 2 * batchSize
    /\ fs.totalFetched < fs.limit

\* witness: the observer threw at the first page
C36_WitnessFirstPage ==
    /\ fs.caught = "onProgress" /\ fs.pc = "returned"
    /\ fs.onProgress = "throws" /\ Len(fs.pages) = 1
    /\ fs.result = fs.pages[1].items
    /\ fs.totalFetched < fs.limit

(***************************************************************************)
(* Claims about a command dispatched before the DiscordService exists      *)
(* (checked under DispatchSpec)                                            *)
(***************************************************************************)
\* the handler of invocation i has been called, and has settled
HandlerCalled(i) == Logged(i, "handler")
HandlerSettled(i) == HandlerCalled(i) /\ inv[i].pc \in {"report", "returned"}

\* C37 as stated: a command dispatched while the Discord service is not
\* initialised, and whose handler is reached, ends in the Failed state with
\* no call to the external API.
C37_AsStated ==
    \A i \in Invocations :
        /\ inv[i].handler \in ServiceHandlers
        /\ dispatch[i].atDispatch = "null"
        /\ HandlerCalled(i) /\ inv[i].pc = "returned"
        => Failed(i) /\ dispatch[i].apiCalls = 0

\* C37: a command whose handler is called while the Discord service is not
\* initialised ends in the Failed state: the handler throws the 'not
\* initialized' error before any call to the external API, the protective
\* boundary catches it and makes the one call that reports it.  (A command
\* dispatched before the self-bot's ready event whose acknowledgement
\* completes after it finds the service and runs as usual.)
C37_UninitialisedServiceFails ==
    \A i \in Invocations :
        /\ HandlerCalled(i) => dispatch[i].atInvoke \in {"null", "instance"}
        /\ dispatch[i].atDispatch = "instance" /\ HandlerCalled(i)
              => dispatch[i].atInvoke = "instance"
        /\ inv[i].handler \in ServiceHandlers /\ dispatch[i].atInvoke = "null"
              /\ HandlerSettled(i)
              => /\ Logged(i, "threw")
                 /\ dispatch[i].apiCalls = 0
                 /\ inv[i].log[Len(Prelude(i)) + 2] = "editReply"
                 /\ inv[i].pc = "returned" => Failed(i)

\* witness: the owner's command was acknowledged and its handler called
\* before the self-bot was ready; the failure was reported
C37_Witness ==
    \E i \in Invocations :
        /\ inv[i].handler \in ServiceHandlers
        /\ dispatch[i].atDispatch = "null" /\ dispatch[i].atInvoke = "null"
        /\ Failed(i)
        /\ inv[i].log = <<"deferReply", "ack", "handler", "threw", "editReply", "reported">>

\* witness: dispatched before the ready event, acknowledged after it, completed
C37_WitnessReadyMeanwhile ==
    \E i \in Invocations :
        /\ inv[i].handler \in ServiceHandlers
        /\ dispatch[i].atDispatch = "null" /\ dispatch[i].atInvoke = "instance"
        /\ Completed(i) /\ dispatch[i].apiCalls > 0

(***************************************************************************)
(* Claims about the guards of the destructive handlers (checked under      *)
(* NukeSpec)                                                               *)
(***************************************************************************)
\* C38: handleNukeChannels and handleNukeServer issue no delete call unless
\* the guild id is well-formed, the guild is in the self-bot's cache and its
\* ownerId is the self-bot user's id; in every other case they end after a
\* single explanatory response or a validation error, with nothing deleted.
C38_DeleteOnlyOwnedGuild ==
    LET allowed == /\ IsSnowflake(nuke.guildId)
                   /\ nuke.guild.present
                   /\ nuke.guild.ownerId = selfUserId
    IN /\ nuke.deleteCalls > 0 => allowed
       /\ nuke.deleted <= nuke.deleteCalls
       /\ nuke.pc # "idle" /\ ~allowed =>
             /\ nuke.deleteCalls = 0 /\ nuke.deleted = 0
             /\ nuke.pc \in {"respond", "returned", "threw"}
             /\ \/ nuke.responses = <<>> /\ nuke.thrown = ValidationError
                \/ nuke.responses \in {<<"not found">>, <<"not owned">>}
             /\ ~IsSnowflake(nuke.guildId) => nuke.thrown = ValidationError

\* witness: the guild is cached but owned by someone else; the handler
\* has ended after its one response
C38_Witness ==
    /\ nuke.pc = "returned" /\ nuke.handler = "nuke-server"
    /\ nuke.guild.present /\ nuke.guild.ownerId = "other"
    /\ nuke.responses = <<"not owned">> /\ nuke.deleteCalls = 0

\* witness: an owned guild, every channel deleted
C38_WitnessDeleted ==
    /\ nuke.pc = "returned" /\ nuke.handler = "nuke-channels"
    /\ nuke.guild.ownerId = selfUserId
    /\ nuke.deleted = MaxItems /\ nuke.deleteCalls = MaxItems

(***************************************************************************)
(* Claims about shutdown and re-login (checked under OrchestratorSpec)     *)
(***************************************************************************)
\* C39: shutdown is idempotent under any interleaving of its triggers
\* (signals, uncaught exception, initial login failure, re-login failure):
\* its body - destroy both clients, process.exit - runs at most once, and
\* once isShuttingDown is set no client-error recovery and no new re-login
\* attempt is started.
C39_ShutdownIdempotent ==
    /\ [](/\ orch.shutdownBodies <= 1 /\ orch.exitCalls <= 1
          /\ orch.shutdownsAwaiting <= 1
          /\ orch.isShuttingDown <=> orch.shutdownBodies = 1
          /\ orch.exited => orch.isShuttingDown /\ orch.exitCalls = 1)
    /\ [][orch.isShuttingDown =>
             /\ orch'.isShuttingDown
             /\ orch'.shutdownBodies = orch.shutdownBodies
             /\ orch'.pendingDestroys <= orch.pendingDestroys
             /\ orch'.attempts = orch.attempts
             /\ orch.needsLogin => orch'.needsLogin \/ orch.relogin = "delay"]_vars

\* witness: two triggers and a failed re-login, one shutdown, the process
\* has exited
C39_Witness ==
    /\ orch.exited /\ orch.shutdownBodies = 1
    /\ orch.triggers = 2 /\ orch.attempts >= 1

\* witness: a destroy of the recovery resolved after the flag was set and
\* started no attempt
C39_WitnessNoLateAttempt ==
    /\ orch.isShuttingDown /\ ~orch.exited
    /\ orch.needsLogin /\ orch.pendingDestroys = 0 /\ orch.attempts = 0

\* C40: at most one self-bot re-login attempt is in flight at any time:
\* while isSelfBotLoggingIn is set further recoverable session errors start
\* no other login, the flag is cleared when the attempt finishes, and every
\* recoverable session error is eventually followed by a login attempt made
\* after the client was last destroyed, or by a shutdown.
C40_OneReloginAndRecovery ==
    /\ [](/\ orch.attemptsInFlight <= 1
          /\ orch.isSelfBotLoggingIn <=> orch.attemptsInFlight = 1
          /\ orch.relogin = "idle" => ~orch.isSelfBotLoggingIn)
    /\ (orch.needsLogin ~> (~orch.needsLogin \/ orch.isShuttingDown))

=============================================================================
